---- MODULE Spec2Model ----
(***************************************************************************)
(* The GSUB substitution manager of opentype.js (class Substitution) over  *)
(* the raw GSUB tree of one font, with the Layout resolution engine it     *)
(* inherits (getLookupTables, expandCoverage, binSearch).                  *)
(*                                                                         *)
(* JavaScript arrays are sequences; a JavaScript index i (0-based) is the  *)
(* element i + 1 of the sequence.  Indexes stored in the tree              *)
(* (featureIndexes, lookupListIndexes) and the positions returned by       *)
(* binSearch keep their 0-based JavaScript values.                         *)
(***************************************************************************)
EXTENDS Integers, Sequences, FiniteSets, TLC

VARIABLES gsub, last, repeated, result, calls, arg, ret, HISTORY, wrappers, warned

vars == <<gsub, last, repeated, result, calls, arg, ret, HISTORY, wrappers, warned>>

(***************************************************************************)
(* Bounds of the model.                                                    *)
(***************************************************************************)
\* glyph ids are 1..MaxGlyph
MaxGlyph == 2
\* longest array passed as sub or by
MaxLen == 2
\* number of calls in one behaviour
MaxCalls == 2

\* glyph ids of the lists handed to binSearch and expandCoverage are 1..MaxId
MaxId == 5
\* longest glyph list handed to binSearch
MaxListLen == 4
\* most ranges of a format-2 coverage handed to expandCoverage
MaxRanges == 2

Glyphs == 1..MaxGlyph

\* an argument the caller left out (undefined)
NoArg == ""

\* all sequences over S of length lo..hi
SeqsOf(S, lo, hi) == UNION {[1..n -> S] : n \in lo..hi}

(***************************************************************************)
(* JavaScript values of a rule's sub and by: a number or an array, told    *)
(* apart by typeof / instanceof Array.                                     *)
(***************************************************************************)
Num(n) == [type |-> "number", val |-> n]

Arr(s) == [type |-> "array", val |-> s]

(***************************************************************************)
(* The raw GSUB tree.  font.tables.gsub may be absent: NoTable stands for  *)
(* the undefined value (version 0 is no GSUB version).                     *)
(***************************************************************************)
NoTable == [version |-> 0, scripts |-> <<>>, features |-> <<>>, lookups |-> <<>>]

HasTable(t) == t.version # 0

DefaultLangSys == [reserved |-> 0, reqFeatureIndex |-> 65535, featureIndexes |-> <<>>]

createDefaultTable ==
  [version |-> 1,
   scripts |-> << [tag |-> "DFLT",
                   script |-> [defaultLangSys |-> DefaultLangSys,
                               langSysRecords |-> <<>>]] >>,
   features |-> <<>>,
   lookups |-> <<>>]

\* a splice that ignores the position and inserts at the end
Splice_AtEnd(s, pos, item) == Append(s, item)

\* array.splice(pos, 0, item): insert item before the 0-based position pos
Splice(s, pos, item) == SubSeq(s, 1, pos) \o <<item>> \o SubSeq(s, pos + 1, Len(s))

\* the concatenation of a sequence of sequences
RECURSIVE Concat(_)
Concat(ss) == IF ss = <<>> THEN <<>> ELSE Head(ss) \o Concat(Tail(ss))

(***************************************************************************)
(* Layout resolution engine: the base class Layout of Substitution.        *)
(***************************************************************************)
\* the 1-based position of the first TRUE of a sequence of booleans, or 0
FirstPos(found) ==
  IF \E i \in 1..Len(found) : found[i]
  THEN CHOOSE i \in 1..Len(found) : found[i] /\ \A j \in 1..(i - 1) : ~found[j]
  ELSE 0

\* getTable that creates the default table for reading calls as well
getTable_AlwaysCreates(t, create) == IF ~HasTable(t) THEN createDefaultTable ELSE t

\* font.tables.gsub, created by createDefaultTable() on the first mutation
getTable(t, create) == IF ~HasTable(t) /\ create THEN createDefaultTable ELSE t

\* the script an omitted script argument stands for: "DFLT", else the first
\* available script
ScriptName(t, script) ==
  IF script # NoArg THEN script
  ELSE IF FirstPos([i \in 1..Len(t.scripts) |-> t.scripts[i].tag = "DFLT"]) > 0 THEN "DFLT"
  ELSE IF t.scripts # <<>> THEN t.scripts[1].tag
  ELSE "DFLT"

\* getScriptTable on the tree t that getTable returned
ScriptTableIn(t, script, create) ==
  LET name == ScriptName(t, script)
      p == FirstPos([i \in 1..Len(t.scripts) |-> t.scripts[i].tag = name])
      rec == [tag |-> name,
              script |-> [defaultLangSys |-> DefaultLangSys, langSysRecords |-> <<>>]]
  IN  IF ~HasTable(t) THEN [t |-> t, sp |-> 0]
      ELSE IF p > 0 THEN [t |-> t, sp |-> p]
      ELSE IF create
           THEN [t |-> [t EXCEPT !.scripts = Append(@, rec)], sp |-> Len(t.scripts) + 1]
           ELSE [t |-> t, sp |-> 0]

\* [t: the tree, sp: the position of the script record in t.scripts or 0]
getScriptTable(t0, script, create) == ScriptTableIn(getTable(t0, create), script, create)

\* getLangSysTable on the script r = [t, sp] that getScriptTable returned
LangSysTableIn(r, language, create) ==
  LET t == r.t
      recs == t.scripts[r.sp].script.langSysRecords
      p == FirstPos([i \in 1..Len(recs) |-> recs[i].tag = language])
      rec == [tag |-> language, langSys |-> DefaultLangSys]
  IN  IF r.sp = 0 THEN [t |-> t, sp |-> 0, lp |-> -1]
      ELSE IF language = NoArg \/ language = "dflt" THEN [t |-> t, sp |-> r.sp, lp |-> 0]
      ELSE IF p > 0 THEN [t |-> t, sp |-> r.sp, lp |-> p]
      ELSE IF create
           THEN [t |-> [t EXCEPT !.scripts[r.sp].script.langSysRecords = Append(@, rec)],
                 sp |-> r.sp, lp |-> Len(recs) + 1]
           ELSE [t |-> t, sp |-> r.sp, lp |-> -1]

\* [t, sp, lp]: lp = 0 is the script's defaultLangSys, lp > 0 the position in
\* langSysRecords, lp = -1 no language system
getLangSysTable(t0, script, language, create) ==
  LangSysTableIn(getScriptTable(t0, script, create), language, create)

\* the feature-index list of a language system
FeatureIndexes(t, sp, lp) ==
  IF lp = 0 THEN t.scripts[sp].script.defaultLangSys.featureIndexes
  ELSE t.scripts[sp].script.langSysRecords[lp].langSys.featureIndexes

\* getFeatureTable on the language system r = [t, sp, lp] that
\* getLangSysTable returned
FeatureTableIn(r, feature, create) ==
  LET t == r.t
      featIndexes == FeatureIndexes(t, r.sp, r.lp)
      p == FirstPos([i \in 1..Len(featIndexes) |->
                      t.features[featIndexes[i] + 1].tag = feature])
      index == Len(t.features)
      rec == [tag |-> feature, feature |-> [params |-> 0, lookupListIndexes |-> <<>>]]
      t1 == [t EXCEPT !.features = Append(@, rec)]
  IN  IF r.lp = -1 THEN [t |-> t, fi |-> -1]
      ELSE IF p > 0 THEN [t |-> t, fi |-> featIndexes[p]]
      ELSE IF create
           THEN [t |-> IF r.lp = 0
                       THEN [t1 EXCEPT
                               !.scripts[r.sp].script.defaultLangSys.featureIndexes
                                   = Append(@, index)]
                       ELSE [t1 EXCEPT
                               !.scripts[r.sp].script.langSysRecords[r.lp]
                                   .langSys.featureIndexes = Append(@, index)],
                 fi |-> index]
           ELSE [t |-> t, fi |-> -1]

\* [t, fi]: fi is the 0-based index of the feature record in t.features, -1
\* when the language system has no such feature
getFeatureTable(t0, script, language, feature, create) ==
  FeatureTableIn(getLangSysTable(t0, script, language, create), feature, create)

\* getLookupTables on the feature r = [t, fi] that getFeatureTable returned
LookupTablesIn(r, lookupType, create) ==
  LET t == r.t
      lookupListIndexes == t.features[r.fi + 1].feature.lookupListIndexes
      tables == SelectSeq(lookupListIndexes,
                          LAMBDA i : t.lookups[i + 1].lookupType = lookupType)
      lookupTable == [lookupType |-> lookupType, lookupFlag |-> 0, subtables |-> <<>>]
      index == Len(t.lookups)
  IN  IF r.fi = -1 THEN [t |-> t, tables |-> <<>>]
      ELSE IF tables = <<>> /\ create
           THEN [t |-> [t EXCEPT !.lookups = Append(@, lookupTable),
                                 !.features[r.fi + 1].feature.lookupListIndexes
                                     = Append(@, index)],
                 tables |-> <<index>>]
           ELSE [t |-> t, tables |-> tables]

\* getLookupTables that appends a lookup table on every creating call
getLookupTables_AlwaysCreates(t0, script, language, feature, lookupType, create) ==
  LET r == getFeatureTable(t0, script, language, feature, create)
      t == r.t
      lookupTable == [lookupType |-> lookupType, lookupFlag |-> 0, subtables |-> <<>>]
      index == Len(t.lookups)
      tables == SelectSeq(t.features[r.fi + 1].feature.lookupListIndexes,
                          LAMBDA i : t.lookups[i + 1].lookupType = lookupType)
  IN  IF r.fi = -1 THEN [t |-> t, tables |-> <<>>]
      ELSE IF create
           THEN [t |-> [t EXCEPT !.lookups = Append(@, lookupTable),
                                 !.features[r.fi + 1].feature.lookupListIndexes
                                     = Append(@, index)],
                 tables |-> <<index>>]
           ELSE [t |-> t, tables |-> tables]

\* [t, tables]: tables lists the 0-based indexes in t.lookups of the lookup
\* tables of the feature that have the requested type
getLookupTables(t0, script, language, feature, lookupType, create) ==
  LookupTablesIn(getFeatureTable(t0, script, language, feature, create),
                 lookupType, create)

\* the glyph ids start..end of one range, ascending
RangeGlyphs(range) == [i \in 1..(range.end - range.start + 1) |-> range.start + i - 1]

\* expandCoverage that stops one glyph before the end of each range
expandCoverage_EndExclusive(coverageTable) ==
  IF coverageTable.format = 1 THEN coverageTable.glyphs
  ELSE Concat([i \in 1..Len(coverageTable.ranges) |->
                 [j \in 1..(coverageTable.ranges[i].end - coverageTable.ranges[i].start)
                    |-> coverageTable.ranges[i].start + j - 1]])

\* the covered glyph ids, in coverage-index order
expandCoverage(coverageTable) ==
  IF coverageTable.format = 1 THEN coverageTable.glyphs
  ELSE Concat([i \in 1..Len(coverageTable.ranges) |-> RangeGlyphs(coverageTable.ranges[i])])

\* binary search of value in arr[imin..imax] (0-based, inclusive)
RECURSIVE BinSearchFrom(_, _, _, _)
BinSearchFrom(arr, value, imin, imax) ==
  IF imin > imax THEN -imin - 1
  ELSE LET imid == (imin + imax) \div 2
           val == arr[imid + 1]
       IN  IF val = value THEN imid
           ELSE IF val < value THEN BinSearchFrom(arr, value, imid + 1, imax)
           ELSE BinSearchFrom(arr, value, imin, imid - 1)

\* binSearch that answers -insertion point for a value it does not find
binSearch_NoMinusOne(arr, value) ==
  IF BinSearchFrom(arr, value, 0, Len(arr) - 1) < 0
  THEN BinSearchFrom(arr, value, 0, Len(arr) - 1) + 1
  ELSE BinSearchFrom(arr, value, 0, Len(arr) - 1)

\* the index of value in the ascending list arr, or -1 - insertion point
binSearch(arr, value) == BinSearchFrom(arr, value, 0, Len(arr) - 1)

\* two arrays of glyph ids have the same length and the same elements
arraysEqual(a, b) == Len(a) = Len(b) /\ \A i \in 1..Len(a) : a[i] = b[i]

(***************************************************************************)
(* Substitution: the get* projections.                                     *)
(*                                                                         *)
(* Each loop header reads "for (let i = 0, sub = glyphs[i], by = ...[i];   *)
(* i < glyphs.length; i++)": sub and by are declared in the loop's         *)
(* initialiser, which runs once, with i = 0; the body pushes {sub, by}     *)
(* once per covered glyph.                                                 *)
(***************************************************************************)
\* the subtables of the lookup tables, in lookup order then subtable order
SubtablesOf(t, tables) ==
  Concat([k \in 1..Len(tables) |-> t.lookups[tables[k] + 1].subtables])

\* the rules pushed for one subtable of a type-1 lookup
SingleOfSubtable(subtable) ==
  LET glyphs == expandCoverage(subtable.coverage)
      g0 == 0
  IN  IF subtable.substFormat = 1
      THEN [g \in 1..Len(glyphs) |->
              [sub |-> glyphs[g0 + 1], by |-> glyphs[g0 + 1] + subtable.deltaGlyphId]]
      ELSE [g \in 1..Len(glyphs) |->
              [sub |-> glyphs[g0 + 1], by |-> subtable.substitute[g0 + 1]]]

\* getSingle that returns at the first subtable it finds
getSingle_FirstSubtableOnly(t, feature, script, language) ==
  LET lookupTables == getLookupTables(t, script, language, feature, 1, FALSE).tables
      subtables == SubtablesOf(t, lookupTables)
  IN  IF subtables = <<>> THEN <<>> ELSE SingleOfSubtable(subtables[1])

getSingle(t, feature, script, language) ==
  LET lookupTables == getLookupTables(t, script, language, feature, 1, FALSE).tables
      subtables == SubtablesOf(t, lookupTables)
  IN  Concat([k \in 1..Len(subtables) |-> SingleOfSubtable(subtables[k])])

\* the rules pushed for one subtable of a type-2 lookup
MultipleOfSubtable(subtable) ==
  LET glyphs == expandCoverage(subtable.coverage)
      i0 == 0
  IN  [i \in 1..Len(glyphs) |-> [sub |-> glyphs[i0 + 1], by |-> subtable.sequences[i0 + 1]]]

getMultiple(t, feature, script, language) ==
  LET lookupTables == getLookupTables(t, script, language, feature, 2, FALSE).tables
      subtables == SubtablesOf(t, lookupTables)
  IN  Concat([k \in 1..Len(subtables) |-> MultipleOfSubtable(subtables[k])])

\* the rules pushed for one subtable of a type-3 lookup
AlternatesOfSubtable(subtable) ==
  LET glyphs == expandCoverage(subtable.coverage)
      i0 == 0
  IN  [i \in 1..Len(glyphs) |->
         [sub |-> glyphs[i0 + 1], by |-> subtable.alternateSets[i0 + 1]]]

getAlternates(t, feature, script, language) ==
  LET lookupTables == getLookupTables(t, script, language, feature, 3, FALSE).tables
      subtables == SubtablesOf(t, lookupTables)
  IN  Concat([k \in 1..Len(subtables) |-> AlternatesOfSubtable(subtables[k])])

\* the rules pushed for one ligature set with its starting glyph
LigaturesOfSet(startGlyph, ligSet) ==
  [k \in 1..Len(ligSet) |->
     [sub |-> <<startGlyph>> \o ligSet[k].components, by |-> ligSet[k].ligGlyph]]

\* the rules pushed for one subtable of a type-4 lookup
LigaturesOfSubtable(subtable) ==
  LET glyphs == expandCoverage(subtable.coverage)
      i0 == 0
  IN  Concat([i \in 1..Len(glyphs) |->
                LigaturesOfSet(glyphs[i0 + 1], subtable.ligatureSets[i0 + 1])])

getLigatures(t, feature, script, language) ==
  LET lookupTables == getLookupTables(t, script, language, feature, 4, FALSE).tables
      subtables == SubtablesOf(t, lookupTables)
  IN  Concat([k \in 1..Len(subtables) |-> LigaturesOfSubtable(subtables[k])])

(***************************************************************************)
(* Substitution: the add* mutations.  Each returns [t, fault]: the tree as *)
(* the call leaves it (the tree is mutated in place, so what was written   *)
(* before a throw stays written) and whether the call threw.               *)
(***************************************************************************)
\* getSubstFormat that pushes the default subtable without looking for one
getSubstFormat_AlwaysPushes(t, li, format, defaultSubtable) ==
  [t |-> [t EXCEPT !.lookups[li].subtables = Append(@, defaultSubtable)],
   si |-> Len(t.lookups[li].subtables) + 1]

\* [t, si]: si is the position in lookup li of the first subtable of the
\* format, the default subtable being pushed when there is none
getSubstFormat(t, li, format, defaultSubtable) ==
  LET subtables == t.lookups[li].subtables
      p == FirstPos([i \in 1..Len(subtables) |-> subtables[i].substFormat = format])
  IN  IF p > 0 THEN [t |-> t, si |-> p]
      ELSE [t |-> [t EXCEPT !.lookups[li].subtables = Append(@, defaultSubtable)],
            si |-> Len(subtables) + 1]

\* AddOrModify that leaves the placeholder of a new entry in place
AddOrModify_KeepsPlaceholder(subtable, field, coverageGlyph, by) ==
  LET found == binSearch(subtable.coverage.glyphs, coverageGlyph)
      pos == IF found < 0 THEN -1 - found ELSE found
  IN  IF found < 0
      THEN [subtable EXCEPT !.coverage.glyphs = Splice(@, pos, coverageGlyph),
                            ![field] = Splice(@, pos, 0)]
      ELSE [subtable EXCEPT ![field] = [@ EXCEPT ![pos + 1] = by]]

\* AddOrModify that inserts without looking for the glyph
AddOrModify_AlwaysInserts(subtable, field, coverageGlyph, by) ==
  LET found == binSearch(subtable.coverage.glyphs, coverageGlyph)
      pos == IF found < 0 THEN -1 - found ELSE found
  IN  [subtable EXCEPT !.coverage.glyphs = Splice(@, pos, coverageGlyph),
                       ![field] = Splice(@, pos, by)]

\* AddOrModify that inserts a new glyph into the coverage list alone
AddOrModify_CoverageOnly(subtable, field, coverageGlyph, by) ==
  LET found == binSearch(subtable.coverage.glyphs, coverageGlyph)
      pos == IF found < 0 THEN -1 - found ELSE found
  IN  IF found < 0
      THEN [subtable EXCEPT !.coverage.glyphs = Splice(@, pos, coverageGlyph)]
      ELSE [subtable EXCEPT ![field] = [@ EXCEPT ![pos + 1] = by]]

\* binSearch, then the insertion of the glyph and its entry at the same
\* position of the coverage list and of the parallel array named field, or
\* the overwrite of the entry of a glyph already covered
AddOrModify(subtable, field, coverageGlyph, by) ==
  LET found == binSearch(subtable.coverage.glyphs, coverageGlyph)
      pos == IF found < 0 THEN -1 - found ELSE found
      glyphs == IF found < 0 THEN Splice(subtable.coverage.glyphs, pos, coverageGlyph)
                ELSE subtable.coverage.glyphs
      entries == IF found < 0 THEN Splice(subtable[field], pos, 0) ELSE subtable[field]
  IN  [subtable EXCEPT !.coverage.glyphs = glyphs,
                       ![field] = [entries EXCEPT ![pos + 1] = by]]

\* the write of a rule into the subtable s = [t, si] that getSubstFormat
\* returned for the lookup at position li
WriteRule(s, li, field, substitution) ==
  LET subtable == s.t.lookups[li].subtables[s.si]
  IN  IF subtable.coverage.format # 1 THEN [t |-> s.t, fault |-> TRUE]
      ELSE [t |-> [s.t EXCEPT !.lookups[li].subtables[s.si] =
                      AddOrModify(subtable, field, substitution.sub.val,
                                  substitution.by.val)],
            fault |-> FALSE]

\* addSingle on the lookup tables r = [t, tables] that getLookupTables
\* returned
SingleInto(r, substitution) ==
  WriteRule(getSubstFormat(r.t, r.tables[1] + 1, 2,
              [substFormat |-> 2, coverage |-> [format |-> 1, glyphs |-> <<>>],
               substitute |-> <<>>]),
            r.tables[1] + 1, "substitute", substitution)

addSingle(t0, feature, substitution, script, language) ==
  SingleInto(getLookupTables(t0, script, language, feature, 1, TRUE), substitution)

\* addMultiple on the lookup tables r = [t, tables] that getLookupTables
\* returned
MultipleInto(r, substitution) ==
  WriteRule(getSubstFormat(r.t, r.tables[1] + 1, 1,
              [substFormat |-> 1, coverage |-> [format |-> 1, glyphs |-> <<>>],
               sequences |-> <<>>]),
            r.tables[1] + 1, "sequences", substitution)

\* addMultiple that checks by after the lookup table and the subtable were
\* resolved
addMultiple_ChecksByLast(t0, feature, substitution, script, language) ==
  LET r == getLookupTables(t0, script, language, feature, 2, TRUE)
      li == r.tables[1] + 1
      s == getSubstFormat(r.t, li, 1,
             [substFormat |-> 1, coverage |-> [format |-> 1, glyphs |-> <<>>],
              sequences |-> <<>>])
      subtable == s.t.lookups[li].subtables[s.si]
  IN  IF subtable.coverage.format # 1 THEN [t |-> s.t, fault |-> TRUE]
      ELSE IF ~(substitution.by.type = "array" /\ Len(substitution.by.val) > 1)
      THEN [t |-> s.t, fault |-> TRUE]
      ELSE [t |-> [s.t EXCEPT !.lookups[li].subtables[s.si] =
                      AddOrModify(subtable, "sequences", substitution.sub.val,
                                  substitution.by.val)],
            fault |-> FALSE]

addMultiple(t0, feature, substitution, script, language) ==
  IF ~(substitution.by.type = "array" /\ Len(substitution.by.val) > 1)
  THEN [t |-> t0, fault |-> TRUE]
  ELSE MultipleInto(getLookupTables(t0, script, language, feature, 2, TRUE),
                    substitution)

\* addAlternate on the lookup tables r = [t, tables] that getLookupTables
\* returned
AlternateInto(r, substitution) ==
  WriteRule(getSubstFormat(r.t, r.tables[1] + 1, 1,
              [substFormat |-> 1, coverage |-> [format |-> 1, glyphs |-> <<>>],
               alternateSets |-> <<>>]),
            r.tables[1] + 1, "alternateSets", substitution)

addAlternate(t0, feature, substitution, script, language) ==
  AlternateInto(getLookupTables(t0, script, language, feature, 3, TRUE), substitution)

\* PushLigature that pushes without looking for the components
PushLigature_AlwaysPushes(ligatureSet, ligatureTable) ==
  Append(ligatureSet, ligatureTable)

\* PushLigature that keeps the set sorted by component count, longest first
PushLigature_SortsByLength(ligatureSet, ligatureTable) ==
  LET longer == SelectSeq(ligatureSet,
                  LAMBDA l : Len(l.components) >= Len(ligatureTable.components))
      shorter == SelectSeq(ligatureSet,
                   LAMBDA l : Len(l.components) < Len(ligatureTable.components))
  IN  IF \E k \in 1..Len(ligatureSet) :
           arraysEqual(ligatureSet[k].components, ligatureTable.components)
      THEN ligatureSet
      ELSE longer \o <<ligatureTable>> \o shorter

\* PushLigature that replaces the ligGlyph of a stored ligature with the same
\* components
PushLigature_LastWriteWins(ligatureSet, ligatureTable) ==
  IF \E k \in 1..Len(ligatureSet) :
       arraysEqual(ligatureSet[k].components, ligatureTable.components)
  THEN [k \in 1..Len(ligatureSet) |->
          IF arraysEqual(ligatureSet[k].components, ligatureTable.components)
          THEN ligatureTable ELSE ligatureSet[k]]
  ELSE Append(ligatureSet, ligatureTable)

\* the ligature set after the rule was looked for in it: unchanged when a
\* ligature with the same components is stored, else the rule pushed
PushLigature(ligatureSet, ligatureTable) ==
  IF \E k \in 1..Len(ligatureSet) :
       arraysEqual(ligatureSet[k].components, ligatureTable.components)
  THEN ligatureSet
  ELSE Append(ligatureSet, ligatureTable)

\* addLigature on the tree t1 whose lookup at position li has its first
\* subtable
LigatureAt(t1, li, ligature) ==
  LET subtable == t1.lookups[li].subtables[1]
      coverageGlyph == ligature.sub.val[1]
      ligatureTable == [ligGlyph |-> ligature.by.val,
                        components |-> Tail(ligature.sub.val)]
      pos == binSearch(subtable.coverage.glyphs, coverageGlyph)
  IN  IF subtable.coverage.format # 1 THEN [t |-> t1, fault |-> TRUE]
      \* a sub that is no array has no slice method: TypeError
      ELSE IF ligature.sub.type # "array" THEN [t |-> t1, fault |-> TRUE]
      ELSE IF pos >= 0
      THEN [t |-> [t1 EXCEPT !.lookups[li].subtables[1].ligatureSets[pos + 1] =
                      PushLigature(@, ligatureTable)],
            fault |-> FALSE]
      ELSE [t |-> [t1 EXCEPT !.lookups[li].subtables[1] =
                      [@ EXCEPT !.coverage.glyphs = Splice(@, -1 - pos, coverageGlyph),
                                !.ligatureSets = Splice(@, -1 - pos, <<ligatureTable>>)]],
            fault |-> FALSE]

\* addLigature on the lookup tables r = [t, tables] that getLookupTables
\* returned: the first subtable is created when the lookup has none
LigatureInto(r, ligature) ==
  LigatureAt(IF r.t.lookups[r.tables[1] + 1].subtables = <<>>
             THEN [r.t EXCEPT !.lookups[r.tables[1] + 1].subtables =
                      << [substFormat |-> 1,
                          coverage |-> [format |-> 1, glyphs |-> <<>>],
                          ligatureSets |-> <<>>] >>]
             ELSE r.t,
             r.tables[1] + 1, ligature)

addLigature(t0, feature, ligature, script, language) ==
  LigatureInto(getLookupTables(t0, script, language, feature, 4, TRUE), ligature)

\* /ss\d\d/.test(feature) on the feature tags of the model
IsStylisticSet(feature) == feature \in {"ss01", "ss02", "ss20"}

\* what add returns for the call r = [t, fault] it dispatched to
Routed(r, lookupType) == [t |-> r.t, fault |-> r.fault, routed |-> lookupType]

\* add that tells ccmp rules apart by the shape of sub instead of by
add_RoutesCcmpBySub(t0, feature, sub, script, language) ==
  IF IsStylisticSet(feature)
  THEN Routed(addSingle(t0, feature, sub, script, language), 1)
  ELSE IF feature \in {"aalt", "salt"}
  THEN IF sub.by.type = "number"
       THEN Routed(addSingle(t0, feature, sub, script, language), 1)
       ELSE Routed(addAlternate(t0, feature, sub, script, language), 3)
  ELSE IF feature \in {"dlig", "liga", "rlig"}
  THEN Routed(addLigature(t0, feature, sub, script, language), 4)
  ELSE IF feature = "ccmp"
  THEN IF sub.sub.type = "number"
       THEN Routed(addMultiple(t0, feature, sub, script, language), 2)
       ELSE Routed(addLigature(t0, feature, sub, script, language), 4)
  ELSE [t |-> t0, fault |-> FALSE, routed |-> 0]

\* add whose switch ends in a default case that takes the rule for a ligature
add_DefaultsToLigature(t0, feature, sub, script, language) ==
  IF IsStylisticSet(feature)
  THEN Routed(addSingle(t0, feature, sub, script, language), 1)
  ELSE IF feature \in {"aalt", "salt"}
  THEN IF sub.by.type = "number"
       THEN Routed(addSingle(t0, feature, sub, script, language), 1)
       ELSE Routed(addAlternate(t0, feature, sub, script, language), 3)
  ELSE IF feature = "ccmp" /\ sub.by.type = "array"
  THEN Routed(addMultiple(t0, feature, sub, script, language), 2)
  ELSE Routed(addLigature(t0, feature, sub, script, language), 4)

\* [t, fault, routed]: routed is the lookup type the rule went to, 0 for a
\* feature outside the dispatch table
add(t0, feature, sub, script, language) ==
  IF IsStylisticSet(feature)
  THEN Routed(addSingle(t0, feature, sub, script, language), 1)
  ELSE IF feature \in {"aalt", "salt"}
  THEN IF sub.by.type = "number"
       THEN Routed(addSingle(t0, feature, sub, script, language), 1)
       ELSE Routed(addAlternate(t0, feature, sub, script, language), 3)
  ELSE IF feature \in {"dlig", "liga", "rlig"}
  THEN Routed(addLigature(t0, feature, sub, script, language), 4)
  ELSE IF feature = "ccmp"
  THEN IF sub.by.type = "array"
       THEN Routed(addMultiple(t0, feature, sub, script, language), 2)
       ELSE Routed(addLigature(t0, feature, sub, script, language), 4)
  ELSE [t |-> t0, fault |-> FALSE, routed |-> 0]

\* getFeature that leaves out the second list of aalt, salt and ccmp
getFeature_FirstListOnly(t, feature, script, language) ==
  IF IsStylisticSet(feature) \/ feature \in {"aalt", "salt"}
  THEN [defined |-> TRUE, list |-> getSingle(t, feature, script, language)]
  ELSE IF feature \in {"dlig", "liga", "rlig"}
  THEN [defined |-> TRUE, list |-> getLigatures(t, feature, script, language)]
  ELSE IF feature \in {"ccmp", "stch"}
  THEN [defined |-> TRUE, list |-> getMultiple(t, feature, script, language)]
  ELSE [defined |-> FALSE, list |-> <<>>]

\* [defined, list]: defined is FALSE when getFeature returns undefined, for a
\* feature outside the dispatch table
getFeature(t, feature, script, language) ==
  IF IsStylisticSet(feature)
  THEN [defined |-> TRUE, list |-> getSingle(t, feature, script, language)]
  ELSE IF feature \in {"aalt", "salt"}
  THEN [defined |-> TRUE,
        list |-> getSingle(t, feature, script, language)
                   \o getAlternates(t, feature, script, language)]
  ELSE IF feature \in {"dlig", "liga", "rlig"}
  THEN [defined |-> TRUE, list |-> getLigatures(t, feature, script, language)]
  ELSE IF feature = "ccmp"
  THEN [defined |-> TRUE,
        list |-> getMultiple(t, feature, script, language)
                   \o getLigatures(t, feature, script, language)]
  ELSE IF feature = "stch"
  THEN [defined |-> TRUE, list |-> getMultiple(t, feature, script, language)]
  ELSE [defined |-> FALSE, list |-> <<>>]

\* the tree as a get* call leaves it: the call resolves the lookup tables of
\* its type without the create argument
TreeAfterGet(t, feature, script, language, lookupType) ==
  getLookupTables(t, script, language, feature, lookupType, FALSE).t

\* the tree as getFeature leaves it: that of the get* calls it makes, in
\* their order
TreeAfterGetFeature(t, feature, script, language) ==
  IF IsStylisticSet(feature) THEN TreeAfterGet(t, feature, script, language, 1)
  ELSE IF feature \in {"aalt", "salt"}
  THEN TreeAfterGet(TreeAfterGet(t, feature, script, language, 1),
                    feature, script, language, 3)
  ELSE IF feature \in {"dlig", "liga", "rlig"}
  THEN TreeAfterGet(t, feature, script, language, 4)
  ELSE IF feature = "ccmp"
  THEN TreeAfterGet(TreeAfterGet(t, feature, script, language, 2),
                    feature, script, language, 4)
  ELSE IF feature = "stch" THEN TreeAfterGet(t, feature, script, language, 2)
  ELSE t

(***************************************************************************)
(* The fonts a behaviour starts from: a font without GSUB table, a font    *)
(* with the default table, and two parsed fonts.                           *)
(***************************************************************************)
\* a script list with the DFLT script alone, its default language system
\* listing the features 0..n-1
ParsedScripts(n) ==
  << [tag |-> "DFLT",
      script |-> [defaultLangSys |-> [reserved |-> 0, reqFeatureIndex |-> 65535,
                                      featureIndexes |-> [i \in 1..n |-> i - 1]],
                  langSysRecords |-> <<>>]] >>

\* ss01 has two type-1 lookups: the first holds one format-1 (delta)
\* subtable, the second a format-1 subtable over a range coverage and a
\* format-2 subtable
DeltaFont ==
  [version |-> 1,
   scripts |-> ParsedScripts(1),
   features |-> << [tag |-> "ss01",
                    feature |-> [params |-> 0, lookupListIndexes |-> <<0, 1>>]] >>,
   lookups |-> <<
     [lookupType |-> 1, lookupFlag |-> 0, subtables |-> <<
        [substFormat |-> 1, coverage |-> [format |-> 1, glyphs |-> <<1, 2>>],
         deltaGlyphId |-> 1] >>],
     [lookupType |-> 1, lookupFlag |-> 0, subtables |-> <<
        [substFormat |-> 1,
         coverage |-> [format |-> 2, ranges |-> <<[start |-> 3, end |-> 4, index |-> 0]>>],
         deltaGlyphId |-> -2],
        [substFormat |-> 2, coverage |-> [format |-> 1, glyphs |-> <<5, 6>>],
         substitute |-> <<8, 7>>] >>] >>]

\* every subtable that add* would write to has a format-2 (range) coverage
RangeFont ==
  [version |-> 1,
   scripts |-> ParsedScripts(4),
   features |-> <<
     [tag |-> "aalt", feature |-> [params |-> 0, lookupListIndexes |-> <<0>>]],
     [tag |-> "ccmp", feature |-> [params |-> 0, lookupListIndexes |-> <<1>>]],
     [tag |-> "liga", feature |-> [params |-> 0, lookupListIndexes |-> <<2>>]],
     [tag |-> "ss01", feature |-> [params |-> 0, lookupListIndexes |-> <<3>>]] >>,
   lookups |-> <<
     [lookupType |-> 3, lookupFlag |-> 0, subtables |-> <<
        [substFormat |-> 1,
         coverage |-> [format |-> 2, ranges |-> <<[start |-> 1, end |-> 2, index |-> 0]>>],
         alternateSets |-> << <<3, 4>>, <<5>> >>] >>],
     [lookupType |-> 2, lookupFlag |-> 0, subtables |-> <<
        [substFormat |-> 1,
         coverage |-> [format |-> 2, ranges |-> <<[start |-> 1, end |-> 2, index |-> 0]>>],
         sequences |-> << <<3, 4>>, <<5, 6>> >>] >>],
     [lookupType |-> 4, lookupFlag |-> 0, subtables |-> <<
        [substFormat |-> 1,
         coverage |-> [format |-> 2, ranges |-> <<[start |-> 1, end |-> 2, index |-> 0]>>],
         ligatureSets |-> << << [ligGlyph |-> 7, components |-> <<2, 2>>],
                                [ligGlyph |-> 8, components |-> <<2>>] >>,
                             << [ligGlyph |-> 9, components |-> <<1>>] >> >>] >>],
     [lookupType |-> 1, lookupFlag |-> 0, subtables |-> <<
        [substFormat |-> 2,
         coverage |-> [format |-> 2, ranges |-> <<[start |-> 1, end |-> 2, index |-> 0]>>],
         substitute |-> <<3, 4>>] >>] >>]

\* every subtable that add* would write to has a format-1 coverage with a
\* gap between its two glyphs
SparseFont ==
  [version |-> 1,
   scripts |-> ParsedScripts(4),
   features |-> <<
     [tag |-> "aalt", feature |-> [params |-> 0, lookupListIndexes |-> <<0>>]],
     [tag |-> "ccmp", feature |-> [params |-> 0, lookupListIndexes |-> <<1>>]],
     [tag |-> "liga", feature |-> [params |-> 0, lookupListIndexes |-> <<2>>]],
     [tag |-> "ss01", feature |-> [params |-> 0, lookupListIndexes |-> <<3>>]] >>,
   lookups |-> <<
     [lookupType |-> 3, lookupFlag |-> 0, subtables |-> <<
        [substFormat |-> 1, coverage |-> [format |-> 1, glyphs |-> <<1, 3>>],
         alternateSets |-> << <<4, 5>>, <<6>> >>] >>],
     [lookupType |-> 2, lookupFlag |-> 0, subtables |-> <<
        [substFormat |-> 1, coverage |-> [format |-> 1, glyphs |-> <<1, 3>>],
         sequences |-> << <<4, 5>>, <<6, 7>> >>] >>],
     [lookupType |-> 4, lookupFlag |-> 0, subtables |-> <<
        [substFormat |-> 1, coverage |-> [format |-> 1, glyphs |-> <<1, 3>>],
         ligatureSets |-> << << [ligGlyph |-> 7, components |-> <<2>>] >>,
                             << [ligGlyph |-> 8, components |-> <<1>>] >> >>] >>],
     [lookupType |-> 1, lookupFlag |-> 0, subtables |-> <<
        [substFormat |-> 2, coverage |-> [format |-> 1, glyphs |-> <<1, 3>>],
         substitute |-> <<4, 5>>] >>] >>]

(***************************************************************************)
(* The arguments of the calls.                                             *)
(***************************************************************************)
\* (script, language) arguments: both left out, or both given
Locales == {<<NoArg, NoArg>>, <<"latn", "TRK ">>}

\* the (script, language) arguments of the add* and get* calls of a
\* behaviour: left out
CallLocales == {<<NoArg, NoArg>>}

LookupTypes == 1..4

FeatureTags == {"aalt", "ccmp", "liga", "ss01"}

\* the feature tags passed to add and getFeature: those of the fonts, one
\* more of each row of the dispatch table, and kern, which no row names
DispatchTags == FeatureTags \cup {"salt", "dlig", "rlig", "ss20", "stch", "kern"}

\* {sub: id, by: id}
SingleRules == {[sub |-> Num(s), by |-> Num(b)] : s \in Glyphs, b \in Glyphs}

\* {sub: id, by: [ids]} with two or more ids
MultipleRules ==
  {[sub |-> Num(s), by |-> Arr(b)] : s \in Glyphs, b \in SeqsOf(Glyphs, 2, MaxLen)}

\* a multiple substitution whose by is no array, or an array of fewer than
\* two ids
BadMultipleRules ==
  {[sub |-> Num(s), by |-> Num(b)] : s \in Glyphs, b \in Glyphs}
    \cup {[sub |-> Num(s), by |-> Arr(b)] : s \in Glyphs, b \in SeqsOf(Glyphs, 0, 1)}

\* {sub: id, by: [ids]}
AlternateRules ==
  {[sub |-> Num(s), by |-> Arr(b)] : s \in Glyphs, b \in SeqsOf(Glyphs, 1, MaxLen)}

\* {sub: [ids], by: id}
LigatureRules ==
  {[sub |-> Arr(s), by |-> Num(b)] : s \in SeqsOf(Glyphs, 1, MaxLen), b \in Glyphs}

\* a ligature whose sub is one glyph id instead of an array
BadLigatureRules == {[sub |-> Num(s), by |-> Num(b)] : s \in Glyphs, b \in Glyphs}

\* the rules passed to add(feature, rule)
RulesOf(feature) ==
  IF IsStylisticSet(feature) THEN SingleRules
  ELSE IF feature \in {"aalt", "salt"} THEN SingleRules \cup AlternateRules
  ELSE IF feature = "ccmp"
  THEN MultipleRules \cup {r \in BadMultipleRules : r.by.type = "array"}
         \cup LigatureRules \cup BadLigatureRules
  ELSE IF feature = "stch" THEN MultipleRules
  ELSE LigatureRules \cup BadLigatureRules

(***************************************************************************)
(* deprecated(func, message, logger).  HISTORY is the module's map from a  *)
(* function to the set of messages already logged for it, wrappers lists   *)
(* the wrappers created so far with the number of times each was called,   *)
(* warned lists the calls of logger.warn.                                  *)
(***************************************************************************)
\* new WeakMap()
NoHistory == [func \in {} |-> {}]

\* HISTORY.get(func) after `if (!HISTORY.has(func)) HISTORY.set(func, new Set())`
WarningsOf(history, func) == IF func \in DOMAIN history THEN history[func] ELSE {}

\* a wrapper that logs on every call
ShouldWarn_EveryCall(history, func, message) == TRUE

\* !warnings.has(message)
ShouldWarn(history, func, message) == message \notin WarningsOf(history, func)

\* HISTORY after a call of a wrapper of func with message: func has its set,
\* and the set holds message
HistoryAfter(history, func, message) ==
  [f \in DOMAIN history \cup {func} |->
     IF f = func THEN WarningsOf(history, func) \cup {message} ELSE history[f]]

\* no wrapper was created, nothing was logged
NoDeprecation ==
  /\ HISTORY = NoHistory
  /\ wrappers = <<>>
  /\ warned = <<>>

(***************************************************************************)
(* The state machine: one action per public method.  last is the last call *)
(* (method, arguments, whether it threw), repeated tells that the call     *)
(* before it was the same method with the same arguments, result is what   *)
(* the last get* call returned.                                            *)
(***************************************************************************)
NoRule == [sub |-> Num(0), by |-> Num(0)]

\* arg and ret hold the call of a codec or builder function and what it
\* returned; no such call is made on the Substitution object
NoCall == [op |-> "none"]

\* the record of a call; lookupType and create are arguments of
\* getLookupTables alone
Call(op, feature, rule, loc, lookupType, create, fault) ==
  [op |-> op, feature |-> feature, rule |-> rule, script |-> loc[1],
   language |-> loc[2], lookupType |-> lookupType, create |-> create, fault |-> fault]

\* two calls of the same method with the same arguments
SameCall(a, b) ==
  /\ a.op = b.op
  /\ a.feature = b.feature
  /\ a.script = b.script
  /\ a.language = b.language
  /\ a.lookupType = b.lookupType
  /\ a.create = b.create
  /\ a.rule.sub.type = b.rule.sub.type
  /\ a.rule.by.type = b.rule.by.type
  /\ a.rule = b.rule

Init ==
  /\ \/ gsub = NoTable
     \/ gsub = createDefaultTable
     \/ gsub = DeltaFont
     \/ gsub = RangeFont
     \/ gsub = SparseFont
  /\ last = Call("new", NoArg, NoRule, <<NoArg, NoArg>>, 0, FALSE, FALSE)
  /\ repeated = FALSE
  /\ result = <<>>
  /\ calls = 0
  /\ arg = NoCall
  /\ ret = NoCall
  /\ NoDeprecation

\* the effect of the call op(f, rule, script, language) that returned
\* r = [t, fault]
Mutate(op, f, rule, loc, r) ==
  /\ calls < MaxCalls
  /\ gsub' = r.t
  /\ last' = Call(op, f, rule, loc, 0, FALSE, r.fault)
  /\ repeated' = SameCall(last, last')
  /\ result' = <<>>
  /\ calls' = calls + 1
  /\ UNCHANGED <<arg, ret, HISTORY, wrappers, warned>>

\* the effect of the call op(f, script, language) that returned list and
\* left the tree t
Project(op, f, loc, t, list) ==
  /\ calls < MaxCalls
  /\ gsub' = t
  /\ last' = Call(op, f, NoRule, loc, 0, FALSE, FALSE)
  /\ repeated' = SameCall(last, last')
  /\ result' = list
  /\ calls' = calls + 1
  /\ UNCHANGED <<arg, ret, HISTORY, wrappers, warned>>

AddSingle ==
  \E f \in {"ss01", "aalt"}, rule \in SingleRules, loc \in CallLocales :
    Mutate("addSingle", f, rule, loc, addSingle(gsub, f, rule, loc[1], loc[2]))

AddMultiple ==
  \E f \in {"ccmp"}, rule \in MultipleRules \cup BadMultipleRules, loc \in CallLocales :
    Mutate("addMultiple", f, rule, loc, addMultiple(gsub, f, rule, loc[1], loc[2]))

AddAlternate ==
  \E f \in {"aalt"}, rule \in AlternateRules, loc \in CallLocales :
    Mutate("addAlternate", f, rule, loc, addAlternate(gsub, f, rule, loc[1], loc[2]))

AddLigature ==
  \E f \in {"liga", "ccmp"}, rule \in LigatureRules \cup BadLigatureRules,
     loc \in CallLocales :
    Mutate("addLigature", f, rule, loc, addLigature(gsub, f, rule, loc[1], loc[2]))

Add ==
  \E f \in DispatchTags, loc \in CallLocales : \E rule \in RulesOf(f) :
    Mutate("add", f, rule, loc, add(gsub, f, rule, loc[1], loc[2]))

GetSingle ==
  \E f \in {"ss01", "aalt"}, loc \in CallLocales :
    Project("getSingle", f, loc, TreeAfterGet(gsub, f, loc[1], loc[2], 1),
            getSingle(gsub, f, loc[1], loc[2]))

GetMultiple ==
  \E f \in {"ccmp"}, loc \in CallLocales :
    Project("getMultiple", f, loc, TreeAfterGet(gsub, f, loc[1], loc[2], 2),
            getMultiple(gsub, f, loc[1], loc[2]))

GetAlternates ==
  \E f \in {"aalt"}, loc \in CallLocales :
    Project("getAlternates", f, loc, TreeAfterGet(gsub, f, loc[1], loc[2], 3),
            getAlternates(gsub, f, loc[1], loc[2]))

GetLigatures ==
  \E f \in {"liga", "ccmp"}, loc \in CallLocales :
    Project("getLigatures", f, loc, TreeAfterGet(gsub, f, loc[1], loc[2], 4),
            getLigatures(gsub, f, loc[1], loc[2]))

\* result is [defined, list]
GetFeature ==
  \E f \in DispatchTags, loc \in CallLocales :
    Project("getFeature", f, loc, TreeAfterGetFeature(gsub, f, loc[1], loc[2]),
            getFeature(gsub, f, loc[1], loc[2]))

\* the Layout method itself: result lists the indexes of the lookup tables
GetLookupTables ==
  \E f \in {"liga"}, loc \in Locales, lookupType \in LookupTypes, create \in BOOLEAN :
    LET r == getLookupTables(gsub, loc[1], loc[2], f, lookupType, create)
    IN  /\ calls < MaxCalls
        /\ gsub' = r.t
        /\ last' = Call("getLookupTables", f, NoRule, loc, lookupType, create, FALSE)
        /\ repeated' = SameCall(last, last')
        /\ result' = r.tables
        /\ calls' = calls + 1
        /\ UNCHANGED <<arg, ret, HISTORY, wrappers, warned>>

Next ==
  \/ GetLookupTables
  \/ AddSingle
  \/ AddMultiple
  \/ AddAlternate
  \/ AddLigature
  \/ Add
  \/ GetSingle
  \/ GetMultiple
  \/ GetAlternates
  \/ GetLigatures
  \/ GetFeature

Spec == Init /\ [][Next]_vars

(***************************************************************************)
(* The functions of the resolution engine on their own: arg is the call    *)
(* with its arguments, ret what it returned.                               *)
(***************************************************************************)
\* a list of glyph ids is strictly ascending
StrictlyAscending(glyphs) == \A i \in 1..(Len(glyphs) - 1) : glyphs[i] < glyphs[i + 1]

\* the strictly ascending glyph lists, as a format-1 coverage stores them
SortedGlyphLists == {l \in SeqsOf(1..MaxId, 0, MaxListLen) : StrictlyAscending(l)}

\* the range records {start, end, index} with start <= end; index is set by
\* RangesOf
RangeRecords ==
  {r \in [start : 1..MaxId, end : 1..MaxId, index : {0}] : r.start <= r.end}

\* the number of glyph ids of the first k ranges
RECURSIVE GlyphsBefore(_, _)
GlyphsBefore(ranges, k) ==
  IF k = 0 THEN 0
  ELSE GlyphsBefore(ranges, k - 1) + (ranges[k].end - ranges[k].start + 1)

\* the ranges with index set to the coverage index of their first glyph
RangesOf(ranges) ==
  [k \in 1..Len(ranges) |-> [ranges[k] EXCEPT !.index = GlyphsBefore(ranges, k - 1)]]

\* the coverage tables handed to expandCoverage
CoverageTables ==
  {[format |-> 1, glyphs |-> l, ranges |-> <<>>] : l \in SortedGlyphLists}
    \cup {[format |-> 2, glyphs |-> <<>>, ranges |-> RangesOf(rs)] :
            rs \in SeqsOf(RangeRecords, 0, MaxRanges)}

Pending == [done |-> FALSE, val |-> <<>>]

Returned(val) == [done |-> TRUE, val |-> val]

\* the Substitution object takes no part in these calls
NoSubstitution ==
  /\ gsub = NoTable
  /\ last = Call("new", NoArg, NoRule, <<NoArg, NoArg>>, 0, FALSE, FALSE)
  /\ repeated = FALSE
  /\ result = <<>>
  /\ calls = 0

LayoutInit ==
  /\ NoSubstitution
  /\ \/ \E arr \in SortedGlyphLists, value \in 0..(MaxId + 1) :
          arg = [op |-> "binSearch", arr |-> arr, value |-> value]
     \/ \E coverageTable \in CoverageTables :
          arg = [op |-> "expandCoverage", coverage |-> coverageTable]
  /\ ret = Pending
  /\ NoDeprecation

BinSearch ==
  /\ arg.op = "binSearch"
  /\ ~ret.done
  /\ ret' = Returned(binSearch(arg.arr, arg.value))
  /\ UNCHANGED <<HISTORY, wrappers, warned, gsub, last, repeated, result, calls, arg>>

ExpandCoverage ==
  /\ arg.op = "expandCoverage"
  /\ ~ret.done
  /\ ret' = Returned(expandCoverage(arg.coverage))
  /\ UNCHANGED <<HISTORY, wrappers, warned, gsub, last, repeated, result, calls, arg>>

LayoutNext ==
  \/ BinSearch
  \/ ExpandCoverage

LayoutSpec == LayoutInit /\ [][LayoutNext]_vars

(***************************************************************************)
(* The Table/Record model (table.js).  A JavaScript value is a record      *)
(* [type, val]; a Table instance is the function from the names of its own *)
(* properties to their values, "tableName" and "fields" among them.        *)
(***************************************************************************)
Undefined == [type |-> "undefined", val |-> 0]

Str(s) == [type |-> "string", val |-> s]

\* a Table instance as a value
Tbl(t) == [type |-> "table", val |-> t]

\* a method inherited from Table.prototype
Method(name) == [type |-> "function", val |-> name]

\* the properties every Table instance inherits: Table.prototype, then
\* Object.prototype
ProtoNames == {"encode", "sizeOf", "constructor", "toString", "hasOwnProperty"}

\* this[name]: an own property, else an inherited one, else undefined
GetProp(own, name) ==
  IF name \in DOMAIN own THEN own[name]
  ELSE IF name \in ProtoNames THEN Method(name)
  ELSE Undefined

\* this[name] = value
SetProp(own, name, value) ==
  [n \in DOMAIN own \cup {name} |-> IF n = name THEN value ELSE own[n]]

\* the loop over fields: this[field.name] = field.value
RECURSIVE SeedFields(_, _)
SeedFields(own, fields) ==
  IF fields = <<>> THEN own
  ELSE SeedFields(SetProp(own, Head(fields).name, Head(fields).value), Tail(fields))

\* the loop over Object.keys(options): a key is applied when this[k] is not
\* undefined
RECURSIVE OverlayOptions(_, _)
OverlayOptions(own, options) ==
  IF options = <<>> THEN own
  ELSE OverlayOptions(IF GetProp(own, Head(options).k) # Undefined
                      THEN SetProp(own, Head(options).k, Head(options).v)
                      ELSE own,
                      Tail(options))

\* the object before the constructor body runs
EmptyObject == [n \in {} |-> Undefined]

\* new Table(tableName, fields, options); options is the list of the
\* entries [k, v] of the options object, <<>> when it is left out
Table(tableName, fields, options) ==
  OverlayOptions(
    SetProp(SetProp(SeedFields(EmptyObject, fields), "tableName", Str(tableName)),
            "fields", Arr(fields)),
    options)

(***************************************************************************)
(* Calls of the Table constructor, the list helpers and the builder        *)
(* classes: arg is the last call with its arguments, ret what it returned  *)
(* (val) or that it threw (fault, with the message of the error).          *)
(***************************************************************************)
\* field names and option keys of the tables built directly
FieldNames == {"a", "b"}

OptionKeys == {"a", "c", "encode"}

\* {name, type, value} of a scalar field; value may be undefined
ScalarFields ==
  {[name |-> n, type |-> "USHORT", value |-> v] :
     n \in FieldNames, v \in {Num(1), Undefined}}
    \cup {[name |-> n, type |-> "TAG", value |-> Str("DFLT")] : n \in FieldNames}

\* field lists with unique names
FieldLists ==
  {fs \in SeqsOf(ScalarFields, 0, 2) :
     \A i \in 1..Len(fs) : \A j \in 1..Len(fs) : fs[i].name = fs[j].name => i = j}

\* the entries of an options object: its keys are distinct
OptionLists ==
  {os \in SeqsOf([k : OptionKeys, v : {Num(7)}], 0, 2) :
     \A i \in 1..Len(os) : \A j \in 1..Len(os) : os[i].k = os[j].k => i = j}

Built(val) == [done |-> TRUE, fault |-> FALSE, msg |-> "", val |-> val]

Thrown(msg) == [done |-> TRUE, fault |-> TRUE, msg |-> msg, val |-> <<>>]

(***************************************************************************)
(* The list helpers.  A callback argument is modelled by the outcomes of   *)
(* its calls: called[i + 1] is what itemCallback(records[i], i) returned   *)
(* or threw.                                                               *)
(***************************************************************************)
Field(name, type, value) == [name |-> name, type |-> type, value |-> value]

\* a list field name without the index of the element
ItemName_NoIndex(itemName, k) == itemName

\* itemName + i for the 0-based index of element k of a sequence
ItemName(itemName, k) == itemName \o ToString(k - 1)

ushortList_IgnoresCount(itemName, list, count) ==
  <<Field(itemName \o "Count", "USHORT", Num(Len(list)))>>
    \o [k \in 1..Len(list) |-> Field(ItemName(itemName, k), "USHORT", Num(list[k]))]

ushortList(itemName, list, count) ==
  <<Field(itemName \o "Count", "USHORT",
          IF count = Undefined THEN Num(Len(list)) ELSE count)>>
    \o [k \in 1..Len(list) |-> Field(ItemName(itemName, k), "USHORT", Num(list[k]))]

\* the first callback that threw ends the loop with its error
ThrownBy(called, p, fields) ==
  IF p # 0 THEN Thrown(called[p].msg) ELSE Built(fields)

tableList(itemName, records, called) ==
  ThrownBy(called, FirstPos([k \in 1..Len(records) |-> called[k].fault]),
           <<Field(itemName \o "Count", "USHORT", Num(Len(records)))>>
             \o [k \in 1..Len(records) |->
                   Field(ItemName(itemName, k), "TABLE", called[k].val)])

\* fields = fields.concat(itemCallback(records[i], i)) over all records
RECURSIVE ConcatFields(_)
ConcatFields(called) ==
  IF called = <<>> THEN <<>> ELSE Head(called).val \o ConcatFields(Tail(called))

\* recordList whose count is the number of fields it returns for the records
recordList_CountsFields(itemName, records, called) ==
  ThrownBy(called, FirstPos([k \in 1..Len(records) |-> called[k].fault]),
           <<Field(itemName \o "Count", "USHORT", Num(Len(ConcatFields(called))))>>
             \o ConcatFields(called))

recordList(itemName, records, called) ==
  ThrownBy(called, FirstPos([k \in 1..Len(records) |-> called[k].fault]),
           <<Field(itemName \o "Count", "USHORT", Num(Len(records)))>>
             \o ConcatFields(called))

\* arguments of direct calls of the helpers
ItemLists == SeqsOf(1..MaxGlyph, 0, MaxLen)

ItemCounts == {Undefined, Num(0), Num(3)}

(***************************************************************************)
(* Coverage and ClassDef.  The constructors return the Table instance or   *)
(* throw: Built(instance) or Thrown(message).                              *)
(***************************************************************************)
\* super(tableName, head.concat(listed)) once the list helper has returned
TableOf(tableName, head, listed) ==
  IF listed.fault THEN listed ELSE Built(Table(tableName, head \o listed.val, <<>>))

\* the callback of Coverage for RangeRecord number k of ranges
CoverageRangeFields(ranges, k) ==
  Built(<<Field(ItemName("startGlyphID", k), "USHORT", Num(ranges[k].start)),
          Field(ItemName("endGlyphID", k), "USHORT", Num(ranges[k].end)),
          Field(ItemName("startCoverageIndex", k), "USHORT", Num(ranges[k].index))>>)

Coverage_DefaultsToFormat1(coverageTable) ==
  IF coverageTable.format = Num(2)
  THEN TableOf("coverageTable", <<Field("coverageFormat", "USHORT", Num(2))>>,
               recordList("rangeRecord", coverageTable.ranges,
                          [k \in 1..Len(coverageTable.ranges) |->
                             CoverageRangeFields(coverageTable.ranges, k)]))
  ELSE Built(Table("coverageTable",
                   <<Field("coverageFormat", "USHORT", Num(1))>>
                     \o ushortList("glyph", coverageTable.glyphs, Undefined),
                   <<>>))

Coverage(coverageTable) ==
  IF coverageTable.format = Num(1)
  THEN Built(Table("coverageTable",
                   <<Field("coverageFormat", "USHORT", Num(1))>>
                     \o ushortList("glyph", coverageTable.glyphs, Undefined),
                   <<>>))
  ELSE IF coverageTable.format = Num(2)
  THEN TableOf("coverageTable", <<Field("coverageFormat", "USHORT", Num(2))>>,
               recordList("rangeRecord", coverageTable.ranges,
                          [k \in 1..Len(coverageTable.ranges) |->
                             CoverageRangeFields(coverageTable.ranges, k)]))
  ELSE Thrown("Coverage format must be 1 or 2.")

\* the callback of ClassDef for RangeRecord number k of ranges
ClassRangeFields(ranges, k) ==
  Built(<<Field(ItemName("startGlyphID", k), "USHORT", Num(ranges[k].start)),
          Field(ItemName("endGlyphID", k), "USHORT", Num(ranges[k].end)),
          Field(ItemName("class", k), "USHORT", Num(ranges[k].classId))>>)

ClassDef(classDefTable) ==
  IF classDefTable.format = Num(1)
  THEN Built(Table("classDefTable",
                   <<Field("classFormat", "USHORT", Num(1)),
                     Field("startGlyphID", "USHORT", Num(classDefTable.startGlyph))>>
                     \o ushortList("glyph", classDefTable.classes, Undefined),
                   <<>>))
  ELSE IF classDefTable.format = Num(2)
  THEN TableOf("classDefTable", <<Field("classFormat", "USHORT", Num(2))>>,
               recordList("rangeRecord", classDefTable.ranges,
                          [k \in 1..Len(classDefTable.ranges) |->
                             ClassRangeFields(classDefTable.ranges, k)]))
  ELSE Thrown("Class format must be 1 or 2.")

\* raw tables handed to the builders: the format may be any value or missing
Formats == {Num(1), Num(2), Num(3), Str("1"), Undefined}

BuilderRanges == SeqsOf({r \in RangeRecords : r.end <= MaxGlyph}, 0, MaxRanges)

RawCoverages ==
  {[format |-> f, glyphs |-> g, ranges |-> <<>>] : f \in Formats, g \in ItemLists}
    \cup {[format |-> f, glyphs |-> <<>>, ranges |-> r] : f \in Formats, r \in BuilderRanges}

ClassRanges ==
  {[k \in 1..Len(r) |-> [start |-> r[k].start, end |-> r[k].end, classId |-> k]] :
     r \in BuilderRanges}

RawClassDefs ==
  {[format |-> f, startGlyph |-> 1, classes |-> c, ranges |-> <<>>] :
     f \in Formats, c \in ItemLists}
    \cup {[format |-> f, startGlyph |-> 1, classes |-> <<>>, ranges |-> r] :
            f \in Formats, r \in ClassRanges}

(***************************************************************************)
(* ScriptList.                                                             *)
(***************************************************************************)
Null == [type |-> "null", val |-> 0]

\* !!v for a value that is undefined, null or an object
Truthy(v) == v \notin {Undefined, Null}

\* the table written for a default or a tagged language system
LangSysTable(tableName, langSys) ==
  Table(tableName,
        <<Field("lookupOrder", "USHORT", Num(0)),
          Field("reqFeatureIndex", "USHORT", Num(langSys.reqFeatureIndex))>>
          \o ushortList("featureIndex", langSys.featureIndexes, Undefined),
        <<>>)

\* the callback of the inner recordList for langSysRecord number k
LangSysRecordFields(langSysRecords, k) ==
  Built(<<Field(ItemName("langSysTag", k), "TAG", Str(langSysRecords[k].tag)),
          Field(ItemName("langSys", k), "TABLE",
                Tbl(LangSysTable("langSys", langSysRecords[k].langSys)))>>)

\* the two fields written for a script record with a default language system
ScriptFields(scriptRecord, k) ==
  <<Field(ItemName("scriptTag", k), "TAG", Str(scriptRecord.tag)),
    Field(ItemName("script", k), "TABLE",
          Tbl(Table("scriptTable",
                    <<Field("defaultLangSys", "TABLE",
                            Tbl(LangSysTable("defaultLangSys",
                                             scriptRecord.script.defaultLangSys)))>>
                      \o recordList("langSys", scriptRecord.script.langSysRecords,
                                    [j \in 1..Len(scriptRecord.script.langSysRecords) |->
                                       LangSysRecordFields(scriptRecord.script.langSysRecords, j)]).val,
                    <<>>)))>>

ScriptRecordFields_WritesEmptyDefault(scriptListTable, k) ==
  IF Truthy(scriptListTable[k].script.defaultLangSys)
  THEN Built(ScriptFields(scriptListTable[k], k))
  ELSE Built(ScriptFields([tag |-> scriptListTable[k].tag,
                           script |-> [defaultLangSys |-> DefaultLangSys,
                                       langSysRecords |-> <<>>]], k))

\* the callback of ScriptList for scriptRecord number k
ScriptRecordFields(scriptListTable, k) ==
  IF Truthy(scriptListTable[k].script.defaultLangSys)
  THEN Built(ScriptFields(scriptListTable[k], k))
  ELSE Thrown("Unable to write GSUB: script " \o scriptListTable[k].tag
                \o " has no default language system.")

ScriptList(scriptListTable) ==
  TableOf("scriptListTable", <<>>,
          recordList("scriptRecord", scriptListTable,
                     [k \in 1..Len(scriptListTable) |->
                        ScriptRecordFields(scriptListTable, k)]))

MaxScripts == 2

\* script records whose default language system may be missing
RawScripts ==
  {[tag |-> t, script |-> [defaultLangSys |-> d, langSysRecords |-> l]] :
     t \in {"DFLT", "latn"},
     d \in {DefaultLangSys, Undefined, Null},
     l \in {<<>>, <<[tag |-> "TRK ", langSys |-> DefaultLangSys]>>}}

RawScriptLists == SeqsOf(RawScripts, 0, MaxScripts)

(***************************************************************************)
(* LookupList.  subtableMakers is modelled by the set of lookup types it   *)
(* has a callback for; the callback registered for a type builds a table   *)
(* that records the type it was registered for.                            *)
(***************************************************************************)
\* subtableMakers[lookupType](subtable)
MakeSubtable(lookupType, subtable) ==
  Table("substitutionTable",
        <<Field("substFormat", "USHORT", Num(subtable.substFormat)),
          Field("madeFor", "USHORT", Num(lookupType))>>,
        <<>>)

\* new Table("lookupTable", ...) for a lookup table whose type is registered
LookupTableOf(lookupTable) ==
  Table("lookupTable",
        <<Field("lookupType", "USHORT", Num(lookupTable.lookupType)),
          Field("lookupFlag", "USHORT", Num(lookupTable.lookupFlag))>>
          \o tableList("subtable", lookupTable.subtables,
                       [j \in 1..Len(lookupTable.subtables) |->
                          Built(Tbl(MakeSubtable(lookupTable.lookupType,
                                                 lookupTable.subtables[j])))]).val,
        <<>>)

LookupCallback_NoRegistry(lookupTable, subtableMakers) ==
  Built(Tbl(LookupTableOf(lookupTable)))

\* the callback of LookupList for one lookup table
LookupCallback(lookupTable, subtableMakers) ==
  IF lookupTable.lookupType \in subtableMakers
  THEN Built(Tbl(LookupTableOf(lookupTable)))
  ELSE Thrown("Unable to write GSUB lookup type " \o ToString(lookupTable.lookupType)
                \o " tables.")

LookupList(lookupListTable, subtableMakers) ==
  TableOf("lookupListTable", <<>>,
          tableList("lookup", lookupListTable,
                    [k \in 1..Len(lookupListTable) |->
                       LookupCallback(lookupListTable[k], subtableMakers)]))

MaxLookups == 2

\* lookup tables of types 1, 2 and 5 with no or two subtables
RawLookups ==
  {[lookupType |-> t, lookupFlag |-> 0, subtables |-> ss] :
     t \in {1, 2, 5},
     ss \in {<<>>, <<[substFormat |-> 1], [substFormat |-> 2]>>}}

RawLookupLists == SeqsOf(RawLookups, 0, MaxLookups)

\* the lookup types subtableMakers has a callback for
MakerSets == {{}, {1}, {1, 2}}

(***************************************************************************)
(* FeatureList.                                                            *)
(***************************************************************************)
\* the callback of FeatureList for featureRecord number k
FeatureRecordFields(featureListTable, k) ==
  Built(<<Field(ItemName("featureTag", k), "TAG", Str(featureListTable[k].tag)),
          Field(ItemName("feature", k), "TABLE",
                Tbl(Table("featureTable",
                          <<Field("featureParams", "USHORT",
                                  Num(featureListTable[k].feature.featureParams))>>
                            \o ushortList("lookupListIndex",
                                          featureListTable[k].feature.lookupListIndexes,
                                          Undefined),
                          <<>>)))>>)

FeatureList(featureListTable) ==
  TableOf("featureListTable", <<>>,
          recordList("featureRecord", featureListTable,
                     [k \in 1..Len(featureListTable) |->
                        FeatureRecordFields(featureListTable, k)]))

MaxFeatures == 2

\* feature records {tag, feature: {featureParams, lookupListIndexes}}
RawFeatures ==
  {[tag |-> t, feature |-> [featureParams |-> 0, lookupListIndexes |-> l]] :
     t \in {"liga", "ss01"}, l \in {<<>>, <<0, 1>>}}

RawFeatureLists == SeqsOf(RawFeatures, 0, MaxFeatures)

TableInit ==
  /\ NoSubstitution
  /\ arg = NoCall
  /\ ret = Pending
  /\ NoDeprecation

NewTable ==
  \E fields \in FieldLists, options \in OptionLists :
    /\ arg' = [op |-> "Table", tableName |-> "t", fields |-> fields, options |-> options]
    /\ ret' = Built(Table("t", fields, options))
    /\ UNCHANGED <<HISTORY, wrappers, warned, gsub, last, repeated, result, calls>>

UshortList ==
  \E list \in ItemLists, count \in ItemCounts :
    /\ arg' = [op |-> "ushortList", itemName |-> "glyph", list |-> list, count |-> count]
    /\ ret' = Built(ushortList("glyph", list, count))
    /\ UNCHANGED <<HISTORY, wrappers, warned, gsub, last, repeated, result, calls>>

\* the callback wraps each record into a table of one field
TableList ==
  \E records \in ItemLists :
    /\ arg' = [op |-> "tableList", itemName |-> "item", list |-> records]
    /\ ret' = tableList("item", records,
                        [k \in 1..Len(records) |->
                           Built(Tbl(Table("item", <<Field("v", "USHORT", Num(records[k]))>>, <<>>)))])
    /\ UNCHANGED <<HISTORY, wrappers, warned, gsub, last, repeated, result, calls>>

\* the callback returns two fields per record
RecordList ==
  \E records \in ItemLists :
    /\ arg' = [op |-> "recordList", itemName |-> "rec", list |-> records]
    /\ ret' = recordList("rec", records,
                         [k \in 1..Len(records) |->
                            Built(<<Field(ItemName("start", k), "USHORT", Num(records[k])),
                                    Field(ItemName("end", k), "USHORT", Num(records[k]))>>)])
    /\ UNCHANGED <<HISTORY, wrappers, warned, gsub, last, repeated, result, calls>>

NewCoverage ==
  \E coverageTable \in RawCoverages :
    /\ arg' = [op |-> "Coverage", raw |-> coverageTable]
    /\ ret' = Coverage(coverageTable)
    /\ UNCHANGED <<HISTORY, wrappers, warned, gsub, last, repeated, result, calls>>

NewClassDef ==
  \E classDefTable \in RawClassDefs :
    /\ arg' = [op |-> "ClassDef", raw |-> classDefTable]
    /\ ret' = ClassDef(classDefTable)
    /\ UNCHANGED <<HISTORY, wrappers, warned, gsub, last, repeated, result, calls>>

NewScriptList ==
  \E scriptListTable \in RawScriptLists :
    /\ arg' = [op |-> "ScriptList", raw |-> scriptListTable]
    /\ ret' = ScriptList(scriptListTable)
    /\ UNCHANGED <<HISTORY, wrappers, warned, gsub, last, repeated, result, calls>>

NewLookupList ==
  \E lookupListTable \in RawLookupLists, subtableMakers \in MakerSets :
    /\ arg' = [op |-> "LookupList", raw |-> lookupListTable, makers |-> subtableMakers]
    /\ ret' = LookupList(lookupListTable, subtableMakers)
    /\ UNCHANGED <<HISTORY, wrappers, warned, gsub, last, repeated, result, calls>>

NewFeatureList ==
  \E featureListTable \in RawFeatureLists :
    /\ arg' = [op |-> "FeatureList", raw |-> featureListTable]
    /\ ret' = FeatureList(featureListTable)
    /\ UNCHANGED <<HISTORY, wrappers, warned, gsub, last, repeated, result, calls>>

TableNext ==
  \/ NewTable
  \/ UshortList
  \/ TableList
  \/ RecordList
  \/ NewCoverage
  \/ NewClassDef
  \/ NewScriptList
  \/ NewLookupList
  \/ NewFeatureList

TableSpec == TableInit /\ [][TableNext]_vars

(***************************************************************************)
(* The codec of tables: Table.encode and Table.sizeOf delegate to          *)
(* encode.TABLE and sizeOf.TABLE.  Bytes are the integers 0..255.          *)
(***************************************************************************)
\* the ASCII codes of the tags written by the builders
TagCodes ==
  [t \in {"DFLT", "latn", "TRK "} |->
     IF t = "DFLT" THEN <<68, 70, 76, 84>>
     ELSE IF t = "latn" THEN <<108, 97, 116, 110>>
     ELSE <<84, 82, 75, 32>>]

\* the value a field is written with: the property of the instance
FieldValue(table, field) == table[field.name]

RECURSIVE SumSeq(_)
SumSeq(ns) == IF ns = <<>> THEN 0 ELSE Head(ns) + SumSeq(Tail(ns))

\* encode.USHORT / encode.TAG: big-endian integers, 4 ASCII bytes
EncodeScalar(type, value) ==
  IF type = "USHORT" THEN <<(value.val \div 256) % 256, value.val % 256>>
  ELSE TagCodes[value.val]

\* sizeOf.USHORT / sizeOf.TAG
SizeOfScalar(type) == IF type = "USHORT" THEN 2 ELSE 4

\* the head: scalar fields encoded, the offset of each nested table in two
\* bytes; subs[k] is the encoding of the nested table of field k
HeadBytes(table, fields, subs, headLen) ==
  Concat([k \in 1..Len(fields) |->
            IF fields[k].type = "TABLE"
            THEN EncodeScalar("USHORT",
                              Num(headLen + SumSeq([j \in 1..(k - 1) |-> Len(subs[j])])))
            ELSE EncodeScalar(fields[k].type, FieldValue(table, fields[k]))])

\* pass 1 gives the length of the head, pass 2 the head followed by the
\* nested tables in field order
EncodeWith(table, fields, subs) ==
  HeadBytes(table, fields, subs,
            SumSeq([k \in 1..Len(fields) |->
                      IF fields[k].type = "TABLE" THEN 2 ELSE SizeOfScalar(fields[k].type)]))
    \o Concat(subs)

RECURSIVE encode(_)
encode(table) ==
  EncodeWith(table, table["fields"].val,
             [k \in 1..Len(table["fields"].val) |->
                IF table["fields"].val[k].type = "TABLE"
                THEN encode(FieldValue(table, table["fields"].val[k]).val)
                ELSE <<>>])

RECURSIVE sizeOf_NoOffsets(_)
sizeOf_NoOffsets(table) ==
  SumSeq([k \in 1..Len(table["fields"].val) |->
            IF table["fields"].val[k].type = "TABLE"
            THEN sizeOf_NoOffsets(FieldValue(table, table["fields"].val[k]).val)
            ELSE SizeOfScalar(table["fields"].val[k].type)])

RECURSIVE sizeOf(_)
sizeOf(table) ==
  SumSeq([k \in 1..Len(table["fields"].val) |->
            IF table["fields"].val[k].type = "TABLE"
            THEN 2 + sizeOf(FieldValue(table, table["fields"].val[k]).val)
            ELSE SizeOfScalar(table["fields"].val[k].type)])

\* every scalar field of the table has a value of its type
ScalarsValid(table) ==
  \A k \in 1..Len(table["fields"].val) :
    \/ table["fields"].val[k].type = "TABLE"
    \/ /\ table["fields"].val[k].type = "USHORT"
       /\ FieldValue(table, table["fields"].val[k]).type = "number"
    \/ /\ table["fields"].val[k].type = "TAG"
       /\ FieldValue(table, table["fields"].val[k]).type = "string"

\* the tables the constructors of table.js build from the raw inputs
ConstructedTables ==
  {t \in {Table("t", fields, options) : fields \in FieldLists, options \in OptionLists} :
     ScalarsValid(t)}
    \cup {Coverage(c).val : c \in {c \in RawCoverages : ~Coverage(c).fault}}
    \cup {ClassDef(c).val : c \in {c \in RawClassDefs : ~ClassDef(c).fault}}
    \cup {ScriptList(l).val : l \in {l \in RawScriptLists : ~ScriptList(l).fault}}
    \cup {LookupList(l, {1, 2, 5}).val : l \in RawLookupLists}

CodecInit ==
  /\ NoSubstitution
  /\ \E table \in ConstructedTables, op \in {"encode", "sizeOf"} :
       arg = [op |-> op, table |-> table]
  /\ ret = Pending
  /\ NoDeprecation

Encode ==
  /\ arg.op = "encode"
  /\ ~ret.done
  /\ ret' = Returned(encode(arg.table))
  /\ UNCHANGED <<HISTORY, wrappers, warned, gsub, last, repeated, result, calls, arg>>

SizeOf ==
  /\ arg.op = "sizeOf"
  /\ ~ret.done
  /\ ret' = Returned(sizeOf(arg.table))
  /\ UNCHANGED <<HISTORY, wrappers, warned, gsub, last, repeated, result, calls, arg>>

CodecNext ==
  \/ Encode
  \/ SizeOf

CodecSpec == CodecInit /\ [][CodecNext]_vars

(***************************************************************************)
(* The calls of deprecated and of the wrappers it returns.  An entry of    *)
(* warned records the logger and the message of a logger.warn call and,    *)
(* for reference, the function whose wrapper made it.                      *)
(***************************************************************************)
MaxWrappers == 2

Funcs == {"f", "g"}

Messages == {"f is deprecated", "use g"}

Loggers == {"log", "custom"}

DeprecatedInit ==
  /\ NoSubstitution
  /\ arg = NoCall
  /\ ret = NoCall
  /\ NoDeprecation

\* deprecated(func, message, logger): returns the wrapper
Deprecated ==
  \E func \in Funcs, message \in Messages, logger \in Loggers :
    /\ Len(wrappers) < MaxWrappers
    /\ wrappers' = Append(wrappers, [func |-> func, message |-> message,
                                     logger |-> logger, called |-> 0])
    /\ arg' = [op |-> "deprecated", wrapper |-> Len(wrappers) + 1]
    /\ UNCHANGED <<HISTORY, warned, gsub, last, repeated, result, calls, ret>>

\* a call of the wrapper number w
CallWrapper ==
  \E w \in 1..Len(wrappers) :
    /\ calls < MaxCalls
    /\ HISTORY' = HistoryAfter(HISTORY, wrappers[w].func, wrappers[w].message)
    /\ warned' = IF ShouldWarn(HISTORY, wrappers[w].func, wrappers[w].message)
                 THEN Append(warned, [logger |-> wrappers[w].logger,
                                      message |-> wrappers[w].message,
                                      func |-> wrappers[w].func])
                 ELSE warned
    /\ wrappers' = [wrappers EXCEPT ![w].called = @ + 1]
    /\ calls' = calls + 1
    /\ arg' = [op |-> "call", wrapper |-> w]
    /\ UNCHANGED <<gsub, last, repeated, result, ret>>

DeprecatedNext ==
  \/ Deprecated
  \/ CallWrapper

DeprecatedSpec == DeprecatedInit /\ [][DeprecatedNext]_vars

(***************************************************************************)
(* Properties.                                                             *)
(***************************************************************************)
\* the elements of a sequence
Range(s) == {s[i] : i \in DOMAIN s}

\* the 0-based indexes of the lookup tables of the type that call c resolves
\* in tree t, nothing being created
TablesOf(t, c, lookupType) ==
  getLookupTables(t, c.script, c.language, c.feature, lookupType, FALSE).tables

\* the subtables a get* call c scans in tree t
Scanned(t, c, lookupType) == SubtablesOf(t, TablesOf(t, c, lookupType))

\* the position in t.lookups of the first lookup table of the type that call
\* c resolves, 0 when there is none
FirstLookup(t, c, lookupType) ==
  IF TablesOf(t, c, lookupType) = <<>> THEN 0 ELSE TablesOf(t, c, lookupType)[1] + 1

\* C1: on a font that has no single substitution for feature f yet,
\* addSingle(f, {sub: s, by: b}) followed by getSingle(f) returns exactly the
\* one-element list [{sub: s, by: b}], for every glyph id s and b.
C1_AddSingleThenGetSingle ==
  [][(/\ last'.op = "addSingle"
      /\ getSingle(gsub, last'.feature, last'.script, last'.language) = <<>>)
     => getSingle(gsub', last'.feature, last'.script, last'.language)
          = << [sub |-> last'.rule.sub.val, by |-> last'.rule.by.val] >>]_vars

\* addSingle("ss01", {sub: 2, by: 1}) on a font without substitutions, then
\* getSingle("ss01")
C1_Witness ==
  /\ last.op = "getSingle"
  /\ last.feature = "ss01"
  /\ calls = 2
  /\ Len(gsub.lookups) = 1
  /\ Len(gsub.features) = 1
  /\ gsub.features[1].tag = "ss01"
  /\ result = << [sub |-> 2, by |-> 1] >>

\* the rules a type-1 format-2 subtable stands for: glyph i with substitute i
SinglePairs(subtable) ==
  LET glyphs == expandCoverage(subtable.coverage)
  IN  [i \in 1..Len(glyphs) |-> [sub |-> glyphs[i], by |-> subtable.substitute[i]]]

\* the rules a type-1 format-1 subtable stands for: glyph i with glyph i + delta
DeltaPairs(subtable) ==
  LET glyphs == expandCoverage(subtable.coverage)
  IN  [i \in 1..Len(glyphs) |->
         [sub |-> glyphs[i], by |-> glyphs[i] + subtable.deltaGlyphId]]

\* the rules a type-2 subtable stands for: glyph i with sequence i
MultiplePairs(subtable) ==
  LET glyphs == expandCoverage(subtable.coverage)
  IN  [i \in 1..Len(glyphs) |-> [sub |-> glyphs[i], by |-> subtable.sequences[i]]]

\* the rules a type-3 subtable stands for: glyph i with alternate set i
AlternatePairs(subtable) ==
  LET glyphs == expandCoverage(subtable.coverage)
  IN  [i \in 1..Len(glyphs) |-> [sub |-> glyphs[i], by |-> subtable.alternateSets[i]]]

\* the rules a type-4 subtable stands for: glyph i with each ligature of set i
LigaturePairs(subtable) ==
  LET glyphs == expandCoverage(subtable.coverage)
  IN  Concat([i \in 1..Len(glyphs) |-> LigaturesOfSet(glyphs[i], subtable.ligatureSets[i])])

\* the number of covered glyphs of the first k subtables
RECURSIVE CoveredBefore(_, _)
CoveredBefore(sts, k) ==
  IF k = 0 THEN 0
  ELSE CoveredBefore(sts, k - 1) + Len(expandCoverage(sts[k].coverage))

\* the entries of a getSingle result that belong to the k-th scanned subtable
BlockOf(res, sts, k) ==
  SubSeq(res, CoveredBefore(sts, k - 1) + 1, CoveredBefore(sts, k))

\* C2: for every subtable of a matching lookup table and every index i below
\* the number of covered glyphs, get* emits the rule that pairs the i-th
\* covered glyph with the i-th entry of the parallel array: substitute of a
\* format-2 single subtable, sequences, alternateSets, and each ligature of
\* ligatureSets[i].
C2_GetPairsGlyphWithEntry ==
  /\ last.op = "getSingle" =>
       LET sts == Scanned(gsub, last, 1)
       IN  \A k \in 1..Len(sts) :
             sts[k].substFormat = 2 => BlockOf(result, sts, k) = SinglePairs(sts[k])
  /\ last.op = "getMultiple" =>
       LET sts == Scanned(gsub, last, 2)
       IN  result = Concat([k \in 1..Len(sts) |-> MultiplePairs(sts[k])])
  /\ last.op = "getAlternates" =>
       LET sts == Scanned(gsub, last, 3)
       IN  result = Concat([k \in 1..Len(sts) |-> AlternatePairs(sts[k])])
  /\ last.op = "getLigatures" =>
       LET sts == Scanned(gsub, last, 4)
       IN  result = Concat([k \in 1..Len(sts) |-> LigaturePairs(sts[k])])

\* C3: for a type-1 subtable with substFormat 1, getSingle returns, for every
\* glyph g of the expanded coverage, the rule {sub: g, by: g + deltaGlyphId}.
C3_DeltaAppliedToEachGlyph ==
  last.op = "getSingle" =>
    LET sts == Scanned(gsub, last, 1)
    IN  \A k \in 1..Len(sts) :
          sts[k].substFormat = 1 => BlockOf(result, sts, k) = DeltaPairs(sts[k])

\* C4: getSingle scans every subtable of every type-1 lookup table resolved
\* for (script, language, feature), whatever its substFormat: the length of
\* the result is the sum of the coverage sizes, and the entries of the k-th
\* subtable (in lookup order, then subtable order) follow those of the
\* subtables before it, each being a rule of that subtable.
C4_GetSingleScansAllSubtables ==
  last.op = "getSingle" =>
    LET sts == Scanned(gsub, last, 1)
    IN  /\ Len(result) = CoveredBefore(sts, Len(sts))
        /\ \A k \in 1..Len(sts) :
             Range(BlockOf(result, sts, k)) \subseteq
               Range(IF sts[k].substFormat = 1 THEN DeltaPairs(sts[k])
                     ELSE SinglePairs(sts[k]))

\* getSingle("ss01") on the parsed font after one addSingle: its first lookup
\* holds a format-1 and the new format-2 subtable, its second lookup a
\* format-1 and a format-2 subtable
C4_Witness ==
  /\ last.op = "getSingle"
  /\ Len(gsub.lookups) = 2
  /\ Len(gsub.lookups[1].subtables) = 2
  /\ Len(gsub.lookups[2].subtables) = 2
  /\ gsub.lookups[1].subtables[1].substFormat = 1
  /\ gsub.lookups[1].subtables[2].substFormat = 2
  /\ gsub.lookups[2].subtables[1].substFormat = 1
  /\ gsub.lookups[2].subtables[2].substFormat = 2
  /\ Len(result) = 7

\* the positions of the format-1 (delta) subtables of the type-1 lookup
\* tables of tree t, as <<lookup position, subtable position>>
DeltaSubtables(t) ==
  UNION {{<<l, k>> : k \in {j \in 1..Len(t.lookups[l].subtables) :
                              t.lookups[l].subtables[j].substFormat = 1}} :
         l \in {i \in 1..Len(t.lookups) : t.lookups[i].lookupType = 1}}

\* C5: addSingle on a font whose type-1 lookup for the feature holds only
\* format-1 (delta) subtables leaves them unchanged and appends one subtable
\* with substFormat 2 and a format-1 coverage that holds the new rule; an
\* addSingle call that finds a format-2 subtable in the lookup appends none;
\* no call creates or modifies a format-1 subtable of a type-1 lookup.
C5_AddSingleKeepsDeltaSubtable ==
  [][LET li == FirstLookup(gsub, last', 1)
         old == gsub.lookups[li].subtables
         fresh == [substFormat |-> 2,
                   coverage |-> [format |-> 1, glyphs |-> <<last'.rule.sub.val>>],
                   substitute |-> <<last'.rule.by.val>>]
     IN  /\ (/\ last'.op = "addSingle"
             /\ li > 0
             /\ old # <<>>
             /\ \A k \in 1..Len(old) : old[k].substFormat = 1)
            => /\ ~last'.fault
               /\ gsub' = [gsub EXCEPT !.lookups[li].subtables = Append(old, fresh)]
         /\ (/\ last'.op = "addSingle"
             /\ li > 0
             /\ \E k \in 1..Len(old) : old[k].substFormat = 2)
            => /\ Len(gsub'.lookups) = Len(gsub.lookups)
               /\ Len(gsub'.lookups[li].subtables) = Len(old)
         /\ DeltaSubtables(gsub') = DeltaSubtables(gsub)
         /\ \A p \in DeltaSubtables(gsub) :
              gsub'.lookups[p[1]].subtables[p[2]] = gsub.lookups[p[1]].subtables[p[2]]
    ]_vars

\* two addSingle calls on the parsed font whose first ss01 lookup held one
\* delta subtable: the second call went into the format-2 subtable that the
\* first call appended
C5_Witness ==
  /\ last.op = "addSingle"
  /\ last.feature = "ss01"
  /\ calls = 2
  /\ Len(gsub.lookups) = 2
  /\ Len(gsub.lookups[1].subtables) = 2
  /\ gsub.lookups[1].subtables[1] = DeltaFont.lookups[1].subtables[1]
  /\ gsub.lookups[1].subtables[2].substFormat = 2
  /\ gsub.lookups[1].subtables[2].coverage.glyphs = <<1, 2>>

\* the ligature set of the starting glyph of the rule of call c in tree t
LigatureSetOf(t, c) ==
  LET subtable == t.lookups[FirstLookup(t, c, 4)].subtables[1]
      pos == binSearch(subtable.coverage.glyphs, c.rule.sub.val[1])
  IN  IF pos >= 0 THEN subtable.ligatureSets[pos + 1] ELSE <<>>

\* C6: a second addLigature(f, {sub, by}) call with the same component
\* sequence and the same by leaves the GSUB tree exactly as it was after the
\* first call, and the ligature set of sub[0] holds exactly one entry with
\* those components.
C6_AddLigatureIdempotent ==
  [][(/\ last'.op = "addLigature"
      /\ ~last'.fault
      /\ SameCall(last, last'))
     => /\ gsub' = gsub
        /\ Cardinality({k \in 1..Len(LigatureSetOf(gsub', last')) :
               LigatureSetOf(gsub', last')[k].components = Tail(last'.rule.sub.val)}) = 1
    ]_vars

\* addLigature("liga", {sub: [1, 2], by: 2}) twice on a font without
\* substitutions
C6_Witness ==
  /\ repeated
  /\ last.op = "addLigature"
  /\ last.feature = "liga"
  /\ ~last.fault
  /\ last.rule.sub.val = <<1, 2>>
  /\ Len(gsub.lookups) = 1
  /\ gsub.lookups[1].lookupType = 4
  /\ gsub.lookups[1].subtables[1].ligatureSets
       = << << [ligGlyph |-> 2, components |-> <<2>>] >> >>

C8_AddMultipleChecksByFirst ==
  [][(/\ last'.op = "addMultiple"
      /\ \/ last'.rule.by.type # "array"
         \/ Len(last'.rule.by.val) < 2)
     => /\ last'.fault
        /\ gsub' = gsub]_vars

\* addMultiple("ccmp", {sub: 1, by: [2]}) on a font without GSUB table
C8_Witness ==
  /\ last.op = "addMultiple"
  /\ last.fault
  /\ last.rule.by.type = "array"
  /\ Len(last.rule.by.val) = 1
  /\ ~HasTable(gsub)

\* C9: whenever a call of addSingle, addMultiple, addAlternate, addLigature
\* or add raises a fault, the GSUB tree after the fault is identical to the
\* tree before the call.
C9_NoPartialWrites ==
  [][(/\ last'.op \in {"addSingle", "addMultiple", "addAlternate", "addLigature", "add"}
      /\ last'.fault)
     => gsub' = gsub]_vars

\* C10: getLookupTables(script, language, feature, lookupType, create = true)
\* is idempotent: what a creating call returns is what a further call with
\* the same arguments returns, and that call adds no script, language system,
\* feature or lookup; an add* call for a feature that has a lookup table of
\* its type adds none and writes into that table alone.
C10_GetLookupTablesIdempotent ==
  [][LET c == last'
         again == getLookupTables(gsub', c.script, c.language, c.feature,
                                  c.lookupType, TRUE)
         lookupType == CASE c.op = "addSingle" -> 1
                         [] c.op = "addMultiple" -> 2
                         [] c.op = "addAlternate" -> 3
                         [] OTHER -> 4
         li == FirstLookup(gsub, c, lookupType)
     IN  /\ (c.op = "getLookupTables" /\ c.create)
            => /\ Len(result') >= 1
               /\ again.t = gsub'
               /\ again.tables = result'
         /\ (c.op = "getLookupTables" /\ c.create /\ SameCall(last, c))
            => /\ gsub' = gsub
               /\ result' = result
         /\ (/\ c.op \in {"addSingle", "addMultiple", "addAlternate", "addLigature"}
             /\ li > 0)
            => /\ gsub'.scripts = gsub.scripts
               /\ gsub'.features = gsub.features
               /\ Len(gsub'.lookups) = Len(gsub.lookups)
               /\ \A l \in 1..Len(gsub.lookups) :
                    l # li => gsub'.lookups[l] = gsub.lookups[l]
    ]_vars

\* getLookupTables("latn", "TRK ", "liga", 4, true) twice: the first call
\* created the script, the language system, the feature and the lookup table
C10_Witness ==
  /\ repeated
  /\ last.op = "getLookupTables"
  /\ last.create
  /\ last.script = "latn"
  /\ last.lookupType = 4
  /\ result # <<>>
  /\ Len(gsub.lookups) >= 1
  /\ gsub.lookups[result[1] + 1].lookupType = 4

\* C19: add("stch", {sub: id, by: [ids]}) adds a multiple substitution: after
\* the call getFeature("stch") contains the rule {sub: id, by: [ids]}.
C19_AddStchThenGetFeature ==
  [][(/\ last'.op = "add"
      /\ last'.feature = "stch"
      /\ last'.rule.by.type = "array"
      /\ Len(last'.rule.by.val) >= 2)
     => LET got == getFeature(gsub', "stch", last'.script, last'.language)
        IN  /\ got.defined
            /\ \E i \in 1..Len(got.list) :
                 got.list[i] = [sub |-> last'.rule.sub.val, by |-> last'.rule.by.val]
    ]_vars

\* the lookup type that the dispatch table of add names for a feature tag
\* and a rule, 0 for a tag outside the table
RoutedType(feature, rule) ==
  IF feature \in {"ss01", "ss20"} THEN 1
  ELSE IF feature \in {"aalt", "salt"}
  THEN (IF rule.by.type = "number" THEN 1 ELSE 3)
  ELSE IF feature = "ccmp" THEN (IF rule.by.type = "array" THEN 2 ELSE 4)
  ELSE IF feature \in {"dlig", "liga", "rlig"} THEN 4
  ELSE 0

\* what the add* method of a lookup type makes of tree t for call c
AddOfType(t, c, lookupType) ==
  CASE lookupType = 1 -> addSingle(t, c.feature, c.rule, c.script, c.language)
    [] lookupType = 2 -> addMultiple(t, c.feature, c.rule, c.script, c.language)
    [] lookupType = 3 -> addAlternate(t, c.feature, c.rule, c.script, c.language)
    [] OTHER -> addLigature(t, c.feature, c.rule, c.script, c.language)

\* C20: add(feature, rule) routes by feature tag and by the shape of rule.by:
\* aalt and salt go to type 1 for a numeric by and to type 3 for an array;
\* ccmp goes to type 2 for an array by and to type 4 otherwise; dlig, liga and
\* rlig go to type 4; ss01 to ss20 go to type 1.  The call does what the add*
\* method of that type does, and it changes or creates lookup tables of that
\* type only.
C20_AddRoutesByTagAndShape ==
  [][(/\ last'.op = "add"
      /\ RoutedType(last'.feature, last'.rule) # 0)
     => LET lookupType == RoutedType(last'.feature, last'.rule)
            called == AddOfType(gsub, last', lookupType)
        IN  /\ gsub' = called.t
            /\ last'.fault = called.fault
            /\ Len(gsub'.lookups) >= Len(gsub.lookups)
            /\ \A l \in 1..Len(gsub'.lookups) :
                 \/ gsub'.lookups[l].lookupType = lookupType
                 \/ /\ l <= Len(gsub.lookups)
                    /\ gsub'.lookups[l] = gsub.lookups[l]
    ]_vars

\* add("ccmp", {sub: [1, 2], by: 1}) then add("ccmp", {sub: 1, by: [1, 2]}) on a
\* font without substitutions: a type-4 and a type-2 lookup for the feature
C20_Witness ==
  /\ last.op = "add"
  /\ last.feature = "ccmp"
  /\ ~last.fault
  /\ last.rule.by.type = "array"
  /\ calls = 2
  /\ Len(gsub.lookups) = 2
  /\ gsub.lookups[1].lookupType = 4
  /\ gsub.lookups[2].lookupType = 2
  /\ Len(gsub.lookups[1].subtables) = 1
  /\ gsub.lookups[1].subtables[1].coverage.glyphs = <<1>>
  /\ gsub.lookups[2].subtables[1].sequences = << <<1, 2>> >>

\* C11: binSearch on a strictly ascending list returns the index of id when
\* id is in the list and -1 - p otherwise, p being the number of elements
\* smaller than id; the result is negative exactly when id is absent, and
\* inserting id at position -1 - result keeps the list strictly ascending.
C11_BinSearchConvention ==
  (arg.op = "binSearch" /\ ret.done) =>
    LET arr == arg.arr
        present == \E i \in 1..Len(arr) : arr[i] = arg.value
        p == Cardinality({i \in 1..Len(arr) : arr[i] < arg.value})
    IN  /\ present => (ret.val >= 0 /\ ret.val < Len(arr) /\ arr[ret.val + 1] = arg.value)
        /\ ~present => ret.val = -1 - p
        /\ (ret.val < 0) <=> ~present
        /\ ~present => StrictlyAscending(Splice(arr, -1 - ret.val, arg.value))

\* binSearch([1, 2, 4, 5], 3) = -3 and binSearch([1, 2, 4, 5], 4) = 2
C11_Witness ==
  /\ arg.op = "binSearch"
  /\ ret.done
  /\ arg.arr = <<1, 2, 4, 5>>
  /\ \/ arg.value = 3 /\ ret.val = -3
     \/ arg.value = 4 /\ ret.val = 2

\* C12: expandCoverage returns the stored glyph list of a format-1 coverage
\* unchanged, and for a format-2 coverage the glyph ids start..end of each
\* range, in range order; for sorted non-overlapping ranges the result is
\* strictly ascending, and its length is the sum of (end - start + 1).
C12_ExpandCoverage ==
  (arg.op = "expandCoverage" /\ ret.done) =>
    LET ranges == arg.coverage.ranges
    IN  /\ arg.coverage.format = 1 => ret.val = arg.coverage.glyphs
        /\ arg.coverage.format = 2 =>
             /\ Len(ret.val) = GlyphsBefore(ranges, Len(ranges))
             /\ \A k \in 1..Len(ranges) :
                  \A j \in 0..(ranges[k].end - ranges[k].start) :
                    ret.val[GlyphsBefore(ranges, k - 1) + j + 1] = ranges[k].start + j
             /\ (\A k \in 1..(Len(ranges) - 1) : ranges[k].end < ranges[k + 1].start)
                  => StrictlyAscending(ret.val)

\* expandCoverage of the ranges 1..3 and 5..5 is [1, 2, 3, 5]
C12_Witness ==
  /\ arg.op = "expandCoverage"
  /\ ret.done
  /\ arg.coverage.format = 2
  /\ arg.coverage.ranges = << [start |-> 1, end |-> 3, index |-> 0],
                              [start |-> 5, end |-> 5, index |-> 3] >>
  /\ ret.val = <<1, 2, 3, 5>>

\* C14: every field seeds the instance property named field.name with
\* field.value; the options overlay replaces the value of exactly those
\* properties that are present on the instance under the key, a key that
\* names no present property is ignored, and the instance has the same
\* properties with and without options.
C14_OptionsOverlay ==
  (arg.op = "Table" /\ ret.done) =>
    LET plain == Table(arg.tableName, arg.fields, <<>>)
        present == DOMAIN plain \cup ProtoNames
    IN  /\ \A i \in 1..Len(arg.fields) : plain[arg.fields[i].name] = arg.fields[i].value
        /\ DOMAIN ret.val \cup ProtoNames = present
        /\ \A i \in 1..Len(arg.options) :
             arg.options[i].k \in present
               => GetProp(ret.val, arg.options[i].k) = arg.options[i].v
        /\ \A n \in DOMAIN ret.val :
             (\A i \in 1..Len(arg.options) : arg.options[i].k # n)
               => (n \in DOMAIN plain /\ ret.val[n] = plain[n])

\* the helper calls whose result C15 describes
ListCall == arg.op \in {"ushortList", "tableList", "recordList"} /\ ret.done /\ ~ret.fault

\* C15: element 0 of the field array returned by ushortList, tableList and
\* recordList is the USHORT field <name>Count, every list field comes after
\* it, and its value is the number of input elements (for ushortList the
\* explicit count when one is given); an empty input gives the count field
\* alone, with value 0 when the count is the length.
C15_CountFieldFirst ==
  ListCall =>
    LET counted == IF arg.op = "ushortList" /\ arg.count # Undefined
                   THEN arg.count ELSE Num(Len(arg.list))
        perItem == IF arg.op = "recordList" THEN 2 ELSE 1
    IN  /\ Len(ret.val) = 1 + perItem * Len(arg.list)
        /\ ret.val[1] = Field(arg.itemName \o "Count", "USHORT", counted)
        /\ \A k \in 2..Len(ret.val) : ret.val[k].name # arg.itemName \o "Count"
        /\ arg.list = <<>> => ret.val = <<Field(arg.itemName \o "Count", "USHORT", counted)>>
        /\ (arg.list = <<>> /\ (arg.op = "ushortList" => arg.count = Undefined))
             => ret.val[1].value = Num(0)

\* ushortList is called with a non-empty list and an explicit count that
\* differs from the length of the list
C15_Witness ==
  /\ ListCall
  /\ arg.op = "ushortList"
  /\ arg.count = Num(3)
  /\ Len(arg.list) = 2
  /\ ret.val[1].value = Num(3)
  /\ Len(ret.val) = 3

\* the name of the format field of the table built by the last call
FormatField == IF arg.op = "Coverage" THEN "coverageFormat" ELSE "classFormat"

\* C16: a Coverage or ClassDef built from a raw table whose format is not 1
\* or 2 (a missing format included) throws and yields no table; with format
\* 1 or 2 the table is built and its first field, coverageFormat or
\* classFormat, carries the format.
C16_FormatMustBe1Or2 ==
  (arg.op \in {"Coverage", "ClassDef"} /\ ret.done) =>
    IF arg.raw.format \in {Num(1), Num(2)}
    THEN /\ ~ret.fault
         /\ ret.val["fields"].val[1] = Field(FormatField, "USHORT", arg.raw.format)
         /\ ret.val[FormatField] = arg.raw.format
    ELSE /\ ret.fault
         /\ ret.msg = (IF arg.op = "Coverage" THEN "Coverage format must be 1 or 2."
                       ELSE "Class format must be 1 or 2.")

\* a Coverage is requested from a table with glyphs and no format
C16_Witness ==
  /\ arg.op = "Coverage"
  /\ ret.done
  /\ arg.raw.format = Undefined
  /\ arg.raw.glyphs # <<>>
  /\ ret.fault

\* the position of the first script record without a default language
\* system, 0 when there is none
FirstWithoutDefault(scriptListTable) ==
  FirstPos([k \in 1..Len(scriptListTable) |->
              scriptListTable[k].script.defaultLangSys \in {Undefined, Null}])

\* C17: the construction of a ScriptList fails exactly when some script
\* record has no script.defaultLangSys; the error is the one of the first
\* such record and names its tag; otherwise the table has a scriptTag and a
\* script field for every record, in order.
C17_ScriptListNeedsDefaultLangSys ==
  (arg.op = "ScriptList" /\ ret.done) =>
    IF FirstWithoutDefault(arg.raw) # 0
    THEN /\ ret.fault
         /\ ret.msg = "Unable to write GSUB: script "
                        \o arg.raw[FirstWithoutDefault(arg.raw)].tag
                        \o " has no default language system."
    ELSE /\ ~ret.fault
         /\ Len(ret.val["fields"].val) = 1 + 2 * Len(arg.raw)
         /\ ret.val["fields"].val[1] = Field("scriptRecordCount", "USHORT", Num(Len(arg.raw)))
         /\ \A k \in 1..Len(arg.raw) :
              /\ ret.val["fields"].val[2 * k] =
                   Field(ItemName("scriptTag", k), "TAG", Str(arg.raw[k].tag))
              /\ ret.val["fields"].val[2 * k + 1].name = ItemName("script", k)
              /\ ret.val["fields"].val[2 * k + 1].type = "TABLE"
              /\ ret.val["fields"].val[2 * k + 1].value.val["tableName"] = Str("scriptTable")

\* the second of two script records is the only one without a default
\* language system
C17_Witness ==
  /\ arg.op = "ScriptList"
  /\ ret.done
  /\ Len(arg.raw) = 2
  /\ arg.raw[1].tag = "DFLT"
  /\ arg.raw[2].tag = "latn"
  /\ FirstWithoutDefault(arg.raw) = 2
  /\ ret.fault

\* the position of the first lookup table whose type has no callback, 0
\* when there is none
FirstUnregistered(lookupListTable, subtableMakers) ==
  FirstPos([k \in 1..Len(lookupListTable) |->
              lookupListTable[k].lookupType \notin subtableMakers])

\* the fields a lookup with a registered type is written with
LookupFieldsOf(lookupTable) ==
  <<Field("lookupType", "USHORT", Num(lookupTable.lookupType)),
    Field("lookupFlag", "USHORT", Num(lookupTable.lookupFlag)),
    Field("subtableCount", "USHORT", Num(Len(lookupTable.subtables)))>>
    \o [j \in 1..Len(lookupTable.subtables) |->
          Field(ItemName("subtable", j), "TABLE",
                Tbl(MakeSubtable(lookupTable.lookupType, lookupTable.subtables[j])))]

\* C18: the construction of a LookupList throws, naming the lookup type, at
\* the first lookup table whose lookupType has no callback in
\* subtableMakers; when every type has one, each lookup is one TABLE field
\* whose table has lookupType, lookupFlag, subtableCount and one TABLE field
\* per subtable, built by the callback of that type.
C18_LookupListNeedsMaker ==
  (arg.op = "LookupList" /\ ret.done) =>
    IF FirstUnregistered(arg.raw, arg.makers) # 0
    THEN /\ ret.fault
         /\ ret.msg = "Unable to write GSUB lookup type "
                        \o ToString(arg.raw[FirstUnregistered(arg.raw, arg.makers)].lookupType)
                        \o " tables."
    ELSE /\ ~ret.fault
         /\ Len(ret.val["fields"].val) = 1 + Len(arg.raw)
         /\ ret.val["fields"].val[1] = Field("lookupCount", "USHORT", Num(Len(arg.raw)))
         /\ \A k \in 1..Len(arg.raw) :
              /\ ret.val["fields"].val[k + 1].name = ItemName("lookup", k)
              /\ ret.val["fields"].val[k + 1].type = "TABLE"
              /\ ret.val["fields"].val[k + 1].value.val["fields"].val = LookupFieldsOf(arg.raw[k])

\* two lookups of different registered types, the second with subtables
C18_Witness ==
  /\ arg.op = "LookupList"
  /\ ret.done
  /\ ~ret.fault
  /\ Len(arg.raw) = 2
  /\ arg.raw[1].lookupType = 1
  /\ arg.raw[2].lookupType = 2
  /\ Len(arg.raw[2].subtables) = 2
  /\ Len(ret.val["fields"].val) = 3

\* a registered lookup precedes an unregistered one: the error names the
\* type of the second
C18_FaultWitness ==
  /\ arg.op = "LookupList"
  /\ ret.done
  /\ ret.fault
  /\ Len(arg.raw) = 2
  /\ FirstUnregistered(arg.raw, arg.makers) = 2
  /\ ret.msg = "Unable to write GSUB lookup type 5 tables."

\* the number of tables nested below a table, at any depth
RECURSIVE NestedCount(_)
NestedCount(table) ==
  SumSeq([k \in 1..Len(table["fields"].val) |->
            IF table["fields"].val[k].type = "TABLE"
            THEN 1 + NestedCount(FieldValue(table, table["fields"].val[k]).val)
            ELSE 0])

\* C13: for every constructed table, tables nested at any depth included,
\* the number of bytes encode returns is the number sizeOf returns: the
\* scalar sizes plus two bytes of offset per nested table, plus the encoded
\* size of each nested table.
C13_EncodeLengthIsSizeOf ==
  /\ (arg.op = "encode" /\ ret.done) => Len(ret.val) = sizeOf(arg.table)
  /\ (arg.op = "sizeOf" /\ ret.done) => ret.val = Len(encode(arg.table))

\* a script list with two scripts is encoded: six tables nested in three
\* levels, one of them a tagged language system
C13_Witness ==
  /\ arg.op = "encode"
  /\ ret.done
  /\ arg.table["tableName"] = Str("scriptListTable")
  /\ NestedCount(arg.table) >= 5
  /\ Len(ret.val) > 2 * NestedCount(arg.table)

\* a feature tag that matches no row of the dispatch table of add
OutsideAdd(feature) ==
  /\ ~IsStylisticSet(feature)
  /\ feature \notin {"aalt", "salt", "dlig", "liga", "rlig", "ccmp"}

\* a feature tag that matches no row of the dispatch table of getFeature
OutsideGetFeature(feature) == OutsideAdd(feature) /\ feature # "stch"

\* the list the dispatch table prescribes for getFeature call c on tree t
FeatureListOf(t, c) ==
  CASE c.feature \in {"aalt", "salt"} ->
         getSingle(t, c.feature, c.script, c.language)
           \o getAlternates(t, c.feature, c.script, c.language)
    [] c.feature = "ccmp" ->
         getMultiple(t, c.feature, c.script, c.language)
           \o getLigatures(t, c.feature, c.script, c.language)
    [] c.feature \in {"dlig", "liga", "rlig"} ->
         getLigatures(t, c.feature, c.script, c.language)
    [] c.feature = "stch" -> getMultiple(t, c.feature, c.script, c.language)
    [] OTHER -> getSingle(t, c.feature, c.script, c.language)

\* C21: getFeature returns, for aalt and salt, the getSingle result followed
\* by the getAlternates result; for ccmp the getMultiple result followed by
\* the getLigatures result; for dlig, liga and rlig the getLigatures result;
\* for stch the getMultiple result; for ss01 to ss20 the getSingle result;
\* each with the same script and language.
C21_GetFeatureDispatch ==
  (last.op = "getFeature" /\ ~OutsideGetFeature(last.feature)) =>
    /\ result.defined
    /\ Len(result.list) = Len(FeatureListOf(gsub, last))
    /\ result.list = FeatureListOf(gsub, last)

\* getFeature("aalt") on a font with a single and with alternate
\* substitutions for aalt
C21_Witness ==
  /\ last.op = "getFeature"
  /\ last.feature = "aalt"
  /\ Len(getSingle(gsub, "aalt", last.script, last.language)) > 0
  /\ Len(getAlternates(gsub, "aalt", last.script, last.language)) > 0
  /\ Len(result.list) > Len(getSingle(gsub, "aalt", last.script, last.language))

\* the format-1 coverage glyph lists of the subtables of tree t
CoverageLists(t) ==
  UNION {{t.lookups[l].subtables[k].coverage.glyphs :
            k \in {j \in 1..Len(t.lookups[l].subtables) :
                     t.lookups[l].subtables[j].coverage.format = 1}} :
         l \in 1..Len(t.lookups)}

\* C22: starting from no tree or from a tree whose format-1 coverage lists
\* are strictly ascending, after any sequence of addSingle, addMultiple,
\* addAlternate and addLigature calls every coverage glyph list, those of the
\* subtables written by add* among them, is strictly ascending: no glyph id
\* occurs twice.
C22_CoverageStaysSorted ==
  \A glyphs \in CoverageLists(gsub) : StrictlyAscending(glyphs)

\* addSingle("ss01", {sub: 2, ...}) has put glyph 2 between the glyphs 1 and
\* 3 of the coverage of the parsed font
C22_Witness ==
  /\ last.op = "addSingle"
  /\ last.feature = "ss01"
  /\ last.rule.sub.val = 2
  /\ ~last.fault
  /\ Len(gsub.lookups) = 4
  /\ Len(gsub.lookups[4].subtables) = 1
  /\ gsub.lookups[4].subtables[1].coverage.format = 1
  /\ gsub.lookups[4].subtables[1].coverage.glyphs = <<1, 2, 3>>

\* the reading methods
GetOps == {"getSingle", "getMultiple", "getAlternates", "getLigatures", "getFeature"}

\* C23: getSingle, getMultiple, getAlternates, getLigatures and getFeature
\* never change the GSUB tree: no table, script, language system, feature,
\* lookup or subtable is created, also when what is asked for does not
\* exist, and a second call with the same arguments returns what the first
\* returned.
C23_GetIsPureProjection ==
  [][last'.op \in GetOps
     => /\ HasTable(gsub') = HasTable(gsub)
        /\ gsub' = gsub
        /\ SameCall(last, last') => result' = result]_vars

\* getFeature("ccmp") twice on a font without GSUB table: the font still has
\* none
C23_Witness ==
  /\ repeated
  /\ last.op = "getFeature"
  /\ last.feature = "ccmp"
  /\ ~HasTable(gsub)
  /\ result.defined
  /\ result.list = <<>>

\* no two fields of the table have the same name, and so for every table
\* nested in it
RECURSIVE UniqueNames(_)
UniqueNames(table) ==
  /\ \A i \in 1..Len(table["fields"].val) : \A j \in 1..Len(table["fields"].val) :
       table["fields"].val[i].name = table["fields"].val[j].name => i = j
  /\ \A i \in 1..Len(table["fields"].val) :
       table["fields"].val[i].type = "TABLE"
         => UniqueNames(table["fields"].val[i].value.val)

\* C24: the field list of a Coverage, a ClassDef, a ScriptList and each of
\* its script, defaultLangSys and langSys tables, a FeatureList and each
\* feature table, a LookupList and each lookup table holds no two fields of
\* the same name; the fields of a list differ by their index suffix.
C24_FieldNamesUnique ==
  (/\ arg.op \in {"Coverage", "ClassDef", "ScriptList", "FeatureList", "LookupList"}
   /\ ret.done
   /\ ~ret.fault)
    => UniqueNames(ret.val)

\* a Coverage built from two ranges has the fields startGlyphID0 and
\* startGlyphID1
C24_Witness ==
  /\ arg.op = "Coverage"
  /\ ret.done
  /\ ~ret.fault
  /\ arg.raw.format = Num(2)
  /\ Len(arg.raw.ranges) = 2
  /\ Len(ret.val["fields"].val) = 8
  /\ ret.val["fields"].val[3].name = "startGlyphID0"
  /\ ret.val["fields"].val[6].name = "startGlyphID1"

\* the lookup type, the subtable format and the parallel array that
\* addSingle, addMultiple and addAlternate write
TargetType(op) == IF op = "addSingle" THEN 1 ELSE IF op = "addMultiple" THEN 2 ELSE 3

TargetFormat(op) == IF op = "addSingle" THEN 2 ELSE 1

TargetField(op) ==
  IF op = "addSingle" THEN "substitute"
  ELSE IF op = "addMultiple" THEN "sequences" ELSE "alternateSets"

\* the position of the subtable call c writes to in lookup li of tree t, 0
\* when the lookup has no subtable of the format yet
TargetPos(t, li, c) ==
  IF li = 0 THEN 0
  ELSE FirstPos([k \in 1..Len(t.lookups[li].subtables) |->
                   t.lookups[li].subtables[k].substFormat = TargetFormat(c.op)])

\* [glyphs, entries] of the subtable call c writes to in tree t: the coverage
\* list and the parallel array, both empty when the subtable does not exist
TargetOf(t, c) ==
  LET li == FirstLookup(t, c, TargetType(c.op))
      si == TargetPos(t, li, c)
  IN  IF si = 0 THEN [glyphs |-> <<>>, entries |-> <<>>]
      ELSE [glyphs |-> t.lookups[li].subtables[si].coverage.glyphs,
            entries |-> t.lookups[li].subtables[si][TargetField(c.op)]]

\* C25: addSingle, addMultiple and addAlternate called with a sub that the
\* coverage of the target subtable contains replace the stored by at the
\* position of that glyph and change nothing else in the tree; called with a
\* sub not yet covered they insert the glyph and its by at the same sorted
\* position of the coverage list and of the parallel array.
C25_AddOrModify ==
  [][(/\ last'.op \in {"addSingle", "addMultiple", "addAlternate"}
      /\ ~last'.fault)
     => LET old == TargetOf(gsub, last')
            new == TargetOf(gsub', last')
            li == FirstLookup(gsub, last', TargetType(last'.op))
            si == TargetPos(gsub, li, last')
            g == last'.rule.sub.val
            p == FirstPos([k \in 1..Len(old.glyphs) |-> old.glyphs[k] = g])
            q == FirstPos([k \in 1..Len(new.glyphs) |-> new.glyphs[k] = g])
        IN  IF p > 0
            THEN /\ new.glyphs = old.glyphs
                 /\ Len(new.entries) = Len(old.entries)
                 /\ new.entries[p] = last'.rule.by.val
                 /\ \A k \in 1..Len(old.entries) : k # p => new.entries[k] = old.entries[k]
                 /\ gsub' = [gsub EXCEPT
                               !.lookups[li].subtables[si][TargetField(last'.op)][p] =
                                   last'.rule.by.val]
            ELSE /\ q > 0
                 /\ new.glyphs = Splice(old.glyphs, q - 1, g)
                 /\ new.entries = Splice(old.entries, q - 1, last'.rule.by.val)
                 /\ StrictlyAscending(old.glyphs) => StrictlyAscending(new.glyphs)
    ]_vars

\* addSingle("ss01", {sub: 1, by: 1}) on the parsed font whose ss01 subtable
\* covers the glyphs 1 and 3: the substitute of glyph 1 is replaced
C25_Witness ==
  /\ last.op = "addSingle"
  /\ last.feature = "ss01"
  /\ ~last.fault
  /\ last.rule.sub.val = 1
  /\ last.rule.by.val = 1
  /\ Len(gsub.lookups) = 4
  /\ gsub.lookups[4].lookupType = 1
  /\ Len(gsub.lookups[4].subtables) = 1
  /\ gsub.lookups[4].subtables[1].substFormat = 2
  /\ gsub.lookups[4].subtables[1].coverage.format = 1
  /\ gsub.lookups[4].subtables[1].coverage.glyphs = <<1, 3>>
  /\ gsub.lookups[4].subtables[1].substitute = <<1, 5>>

\* C26: recordList returns the count field followed by the field arrays of
\* the callback for record 0, 1, ... in record order, with no offset field
\* per record, its count being the number of records and not of fields;
\* tableList returns the count field followed by one TABLE field per record,
\* named name + i, whose value is what the callback returned for record i.
C26_ListsInRecordOrder ==
  /\ (arg.op = "recordList" /\ ret.done /\ ~ret.fault) =>
       /\ Len(ret.val) = 1 + 2 * Len(arg.list)
       /\ ret.val[1] = Field("recCount", "USHORT", Num(Len(arg.list)))
       /\ \A k \in 1..Len(arg.list) :
            /\ ret.val[2 * k] = Field(ItemName("start", k), "USHORT", Num(arg.list[k]))
            /\ ret.val[2 * k + 1] = Field(ItemName("end", k), "USHORT", Num(arg.list[k]))
  /\ (arg.op = "tableList" /\ ret.done /\ ~ret.fault) =>
       /\ Len(ret.val) = 1 + Len(arg.list)
       /\ ret.val[1] = Field("itemCount", "USHORT", Num(Len(arg.list)))
       /\ \A k \in 1..Len(arg.list) :
            /\ ret.val[k + 1].name = ItemName("item", k)
            /\ ret.val[k + 1].type = "TABLE"
            /\ ret.val[k + 1].value.val["v"] = Num(arg.list[k])

\* recordList for the records 2, 1: five fields, count 2, the fields of
\* record 2 before those of record 1
C26_Witness ==
  /\ arg.op = "recordList"
  /\ ret.done
  /\ ~ret.fault
  /\ arg.list = <<2, 1>>
  /\ Len(ret.val) = 5
  /\ ret.val[1].value = Num(2)
  /\ ret.val[2].value = Num(2)
  /\ ret.val[4].value = Num(1)

\* some wrapper of func with message among ws has been called
WasCalled(ws, func, message) ==
  \E v \in 1..Len(ws) :
    ws[v].func = func /\ ws[v].message = message /\ ws[v].called > 0

\* the number of logger.warn calls made for func with message
WarnCount(ws, func, message) ==
  Cardinality({i \in 1..Len(ws) : ws[i].func = func /\ ws[i].message = message})

\* C27: deprecated warns once: creating a wrapper logs nothing; over the calls
\* of the wrappers of one func with one message, logger.warn(message) is
\* called exactly once, by the first call, and never by a later one.
C27_WarnsOnce ==
  [][/\ Len(wrappers') > Len(wrappers) => warned' = warned
     /\ calls' > calls =>
          warned' = IF WasCalled(wrappers, wrappers[arg'.wrapper].func,
                                 wrappers[arg'.wrapper].message)
                    THEN warned
                    ELSE Append(warned, [logger |-> wrappers[arg'.wrapper].logger,
                                         message |-> wrappers[arg'.wrapper].message,
                                         func |-> wrappers[arg'.wrapper].func])
     /\ \A func \in Funcs, message \in Messages :
          WarnCount(warned', func, message)
            = IF WasCalled(wrappers', func, message) THEN 1 ELSE 0
    ]_vars

\* two wrappers of the same function with the same message and different
\* loggers were called once each: one warning was logged
C27_Witness ==
  /\ Len(wrappers) = 2
  /\ wrappers[1].func = wrappers[2].func
  /\ wrappers[1].message = wrappers[2].message
  /\ wrappers[1].logger # wrappers[2].logger
  /\ wrappers[1].called = 1
  /\ wrappers[2].called = 1
  /\ Len(warned) = 1

\* the parallel array of a subtable of a lookup of the type; a format-1
\* single substitution subtable stores a delta and has none
HasParallel(lookupType, subtable) == lookupType # 1 \/ subtable.substFormat = 2

ParallelOf(lookupType, subtable) ==
  CASE lookupType = 1 -> subtable.substitute
    [] lookupType = 2 -> subtable.sequences
    [] lookupType = 3 -> subtable.alternateSets
    [] OTHER -> subtable.ligatureSets

\* in every subtable of tree t the coverage has as many glyphs as the
\* parallel array has entries, and no ligature set is empty
ParallelArrays(t) ==
  \A l \in 1..Len(t.lookups) : \A k \in 1..Len(t.lookups[l].subtables) :
    HasParallel(t.lookups[l].lookupType, t.lookups[l].subtables[k]) =>
      /\ Len(expandCoverage(t.lookups[l].subtables[k].coverage))
           = Len(ParallelOf(t.lookups[l].lookupType, t.lookups[l].subtables[k]))
      /\ t.lookups[l].lookupType = 4 =>
           \A i \in 1..Len(t.lookups[l].subtables[k].ligatureSets) :
             Len(t.lookups[l].subtables[k].ligatureSets[i]) > 0

\* [glyphs, entries] of the subtable addLigature call c writes to in tree t
LigatureTargetOf(t, c) ==
  LET li == FirstLookup(t, c, 4)
  IN  IF li = 0 THEN [glyphs |-> <<>>, entries |-> <<>>]
      ELSE IF t.lookups[li].subtables = <<>> THEN [glyphs |-> <<>>, entries |-> <<>>]
      ELSE [glyphs |-> t.lookups[li].subtables[1].coverage.glyphs,
            entries |-> t.lookups[li].subtables[1].ligatureSets]

\* the position of glyph g in a coverage list, 0 when it is not covered
PosOf(glyphs, g) == FirstPos([k \in 1..Len(glyphs) |-> glyphs[k] = g])

\* every glyph of old other than g has in new the entry it had in old
EntriesFollowGlyphs(old, new, g) ==
  \A k \in 1..Len(old.glyphs) :
    old.glyphs[k] # g =>
      /\ PosOf(new.glyphs, old.glyphs[k]) > 0
      /\ new.entries[PosOf(new.glyphs, old.glyphs[k])] = old.entries[k]

\* C28: starting from no tree or from a tree where it holds, after any
\* sequence of add* calls every subtable has a coverage list as long as its
\* parallel array (substitute, sequences, alternateSets, ligatureSets), entry
\* i of the array belongs to glyph i of the list, the entries of the other
\* glyphs moving with their glyphs, and every ligature set is non-empty.
C28_ParallelArrays ==
  /\ [](HasTable(gsub) => ParallelArrays(gsub))
  /\ [][/\ (last'.op \in {"addSingle", "addMultiple", "addAlternate"} /\ ~last'.fault)
             => /\ EntriesFollowGlyphs(TargetOf(gsub, last'), TargetOf(gsub', last'),
                                       last'.rule.sub.val)
                /\ PosOf(TargetOf(gsub', last').glyphs, last'.rule.sub.val) > 0
                /\ TargetOf(gsub', last').entries[
                     PosOf(TargetOf(gsub', last').glyphs, last'.rule.sub.val)]
                     = last'.rule.by.val
        /\ (last'.op = "addLigature" /\ ~last'.fault)
             => /\ EntriesFollowGlyphs(LigatureTargetOf(gsub, last'),
                                       LigatureTargetOf(gsub', last'),
                                       last'.rule.sub.val[1])
                /\ PosOf(LigatureTargetOf(gsub', last').glyphs, last'.rule.sub.val[1]) > 0
                /\ \E j \in 1..Len(LigatureSetOf(gsub', last')) :
                     LigatureSetOf(gsub', last')[j].components = Tail(last'.rule.sub.val)
       ]_vars

\* addLigature("liga", {sub: [2, ...], by}) on the parsed font whose ligature
\* subtable covers the glyphs 1 and 3: the new ligature set lies between the
\* two sets of the font
C28_Witness ==
  /\ last.op = "addLigature"
  /\ last.feature = "liga"
  /\ ~last.fault
  /\ last.rule.sub.type = "array"
  /\ Len(gsub.lookups) = 4
  /\ gsub.lookups[3].lookupType = 4
  /\ Len(gsub.lookups[3].subtables) = 1
  /\ gsub.lookups[3].subtables[1].coverage.format = 1
  /\ gsub.lookups[3].subtables[1].coverage.glyphs = <<1, 2, 3>>
  /\ Len(gsub.lookups[3].subtables[1].ligatureSets) = 3
  /\ gsub.lookups[3].subtables[1].ligatureSets[1] = SparseFont.lookups[3].subtables[1].ligatureSets[1]
  /\ gsub.lookups[3].subtables[1].ligatureSets[2]
       = << [ligGlyph |-> last.rule.by.val, components |-> Tail(last.rule.sub.val)] >>
  /\ gsub.lookups[3].subtables[1].ligatureSets[3] = SparseFont.lookups[3].subtables[1].ligatureSets[2]

\* no ligature set of tree t holds two entries with equal components
DistinctComponents(t) ==
  \A l \in 1..Len(t.lookups) : \A k \in 1..Len(t.lookups[l].subtables) :
    t.lookups[l].lookupType = 4 =>
      \A i \in 1..Len(t.lookups[l].subtables[k].ligatureSets) :
        \A a \in 1..Len(t.lookups[l].subtables[k].ligatureSets[i]) :
          \A b \in 1..Len(t.lookups[l].subtables[k].ligatureSets[i]) :
            t.lookups[l].subtables[k].ligatureSets[i][a].components
              = t.lookups[l].subtables[k].ligatureSets[i][b].components => a = b

\* C29: addLigature for a component sequence that the ligature set of sub[0]
\* already holds leaves the GSUB tree unchanged, also when by differs from
\* the stored ligGlyph: the stored ligature is kept, no second entry is
\* added, and no ligature set ever holds two entries with equal components.
C29_FirstLigatureWins ==
  /\ [](HasTable(gsub) => DistinctComponents(gsub))
  /\ [][LET li == FirstLookup(gsub, last', 4)
            subtable == gsub.lookups[li].subtables[1]
            pos == binSearch(subtable.coverage.glyphs, last'.rule.sub.val[1])
        IN  (/\ last'.op = "addLigature"
             /\ last'.rule.sub.type = "array"
             /\ li > 0
             /\ gsub.lookups[li].subtables # <<>>
             /\ subtable.coverage.format = 1
             /\ pos >= 0
             /\ \E k \in 1..Len(subtable.ligatureSets[pos + 1]) :
                  subtable.ligatureSets[pos + 1][k].components = Tail(last'.rule.sub.val))
            => /\ ~last'.fault
               /\ gsub' = gsub
       ]_vars

\* addLigature("liga", {sub: [1, 2], by: 1}), then the same components with
\* by: 2: the ligature set still holds the first rule alone
C29_Witness ==
  /\ last.op = "addLigature"
  /\ last.feature = "liga"
  /\ ~last.fault
  /\ calls = 2
  /\ last.rule.sub.type = "array"
  /\ last.rule.sub.val = <<1, 2>>
  /\ last.rule.by.val = 2
  /\ Len(gsub.lookups) = 1
  /\ gsub.lookups[1].lookupType = 4
  /\ Len(gsub.lookups[1].subtables) = 1
  /\ gsub.lookups[1].subtables[1].coverage.format = 1
  /\ gsub.lookups[1].subtables[1].coverage.glyphs = <<1>>
  /\ gsub.lookups[1].subtables[1].ligatureSets
       = << << [ligGlyph |-> 1, components |-> <<2>>] >> >>

\* C30: add(feature, rule) with a feature tag outside its dispatch table
\* (no ssNN, none of aalt, salt, dlig, liga, rlig, ccmp) and
\* getFeature(feature) with a tag outside its table (stch excepted too)
\* return undefined and leave the GSUB tree unchanged: nothing is created
\* and no fault is raised.
C30_UnknownFeatureIsIgnored ==
  [][/\ (last'.op = "add" /\ OutsideAdd(last'.feature))
          => /\ add(gsub, last'.feature, last'.rule,
                    last'.script, last'.language).routed = 0
             /\ ~last'.fault
             /\ gsub' = gsub
     /\ (last'.op = "getFeature" /\ OutsideGetFeature(last'.feature))
          => /\ ~result'.defined
             /\ gsub' = gsub
    ]_vars

\* add("kern", {sub: [1, 2], by: 1}) on a font without GSUB table: there is
\* still no table
C30_Witness ==
  /\ last.op = "add"
  /\ last.feature = "kern"
  /\ last.rule = [sub |-> Arr(<<1, 2>>), by |-> Num(1)]
  /\ ~last.fault
  /\ calls = 1
  /\ ~HasTable(gsub)

====
